---- MODULE Spec2Model ----
(***************************************************************************)
(* Model of the activity event pipeline of                                 *)
(* WebScience.Utilities.SocialMediaActivity (registerPlatformListener,     *)
(* handleGenericEvent, the verifiers and extractors and the               *)
(* platformHandlers table).  One action is one synchronous section of the  *)
(* JavaScript: a listener call runs until its first await, a resumption    *)
(* runs from one await to the next.                                        *)
(***************************************************************************)
EXTENDS Integers, Sequences, FiniteSets, TLC

\* ------------------------------------------------------------------ bounds
MaxRegs == 2        \* calls of register<Platform>ActivityTracker
MaxExecs == 2       \* pipeline executions (listener calls by the browser)
MaxReqIds == 2      \* distinct request ids handed out by the browser

ReqIds == 1..MaxReqIds

\* ------------------------------------------------------- the handler table
FB_GRAPHQL == "https://www.facebook.com/api/graphql/"
FB_OLD_POST == "https://www.facebook.com/webgraphql/mutation/?doc_id=*"
FB_OLD_SHARE == "https://www.facebook.com/share/dialog/submit/*"
REDDIT_VOTE == "https://oauth.reddit.com/api/vote*"
REDDIT_SUBMIT == "https://oauth.reddit.com/api/submit*"
REDDIT_COMMENT == "https://oauth.reddit.com/api/comment*"
TW_UPDATE == "https://api.twitter.com/*/statuses/update.json"
TW_RETWEET == "https://api.twitter.com/*/statuses/retweet.json"
TW_FAVORITE == "https://api.twitter.com/*/favorites/create.json"

Handlers ==
    { <<"twitter", "tweet">>, <<"twitter", "retweet">>, <<"twitter", "favorite">>,
      <<"facebook", "post">>, <<"facebook", "react">>,
      <<"facebook", "comment">>, <<"facebook", "reshare">>,
      <<"reddit", "post">>, <<"reddit", "comment">>,
      <<"reddit", "postVote">>, <<"reddit", "commentVote">> }

\* The event types for which the model registers listeners: of the handlers
\* that share a URL pattern, those whose deduplication verifier is last
\* (facebook post, reshare) and not last (facebook comment, the reddit
\* votes), among them the two with an asynchronous extractor.  The other
\* handlers have the verifier order of the reddit votes.
TrackedHandlers ==
    { <<"facebook", "post">>, <<"facebook", "comment">>,
      <<"facebook", "reshare">>, <<"reddit", "postVote">>,
      <<"reddit", "commentVote">> }

platformHandlers(h) ==
    CASE h = <<"twitter", "tweet">> ->
           [ urls |-> {"https://twitter.com/intent/tweet", TW_UPDATE,
                       "https://twitter.com/i/api/*/statuses/update.json"},
             verifiers |-> <<"verifyPostReq", "verifyReadableFormData",
                             "verifyNewRequest", "verifyTwitterTweet">>,
             extractors |-> <<"extractTwitterTweet">>,
             completers |-> << >> ]
      [] h = <<"twitter", "retweet">> ->
           [ urls |-> {TW_RETWEET, "https://twitter.com/i/api/*/statuses/retweet.json"},
             verifiers |-> <<"verifyPostReq", "verifyReadableFormData",
                             "verifyNewRequest", "verifyTwitterRetweet">>,
             extractors |-> <<"extractTwitterRetweet">>,
             completers |-> << >> ]
      [] h = <<"twitter", "favorite">> ->
           [ urls |-> {TW_FAVORITE, "https://twitter.com/i/api/*/favorites/create.json"},
             verifiers |-> <<"verifyPostReq", "verifyReadableFormData",
                             "verifyNewRequest", "verifyTwitterFavorite">>,
             extractors |-> <<"extractTwitterFavorite">>,
             completers |-> << >> ]
      [] h = <<"facebook", "post">> ->
           [ urls |-> {FB_OLD_POST, FB_GRAPHQL},
             verifiers |-> <<"verifyPostReq", "verifyReadableFormData",
                             "verifyFacebookPost", "verifyNewRequest">>,
             extractors |-> <<"extractFacebookPost">>,
             completers |-> << >> ]
      [] h = <<"facebook", "react">> ->
           [ urls |-> {FB_GRAPHQL},
             verifiers |-> <<"verifyPostReq", "verifyReadableFormData",
                             "verifyNewRequest", "verifyFacebookReact">>,
             extractors |-> <<"extractFacebookReact">>,
             completers |-> << >> ]
      [] h = <<"facebook", "comment">> ->
           [ urls |-> {FB_GRAPHQL},
             verifiers |-> <<"verifyPostReq", "verifyReadableFormData",
                             "verifyNewRequest", "verifyFacebookComment">>,
             extractors |-> <<"extractFacebookComment">>,
             completers |-> << >> ]
      [] h = <<"facebook", "reshare">> ->
           [ urls |-> {FB_OLD_SHARE, FB_GRAPHQL},
             verifiers |-> <<"verifyPostReq", "verifyReadableFormData",
                             "verifyFacebookReshare", "verifyNewRequest">>,
             extractors |-> <<"extractFacebookReshare">>,
             completers |-> << >> ]
      [] h = <<"reddit", "post">> ->
           [ urls |-> {REDDIT_SUBMIT},
             verifiers |-> <<"verifyPostReq", "verifyReadableFormData",
                             "verifyNewRequest", "verifyRedditPost">>,
             extractors |-> <<"extractRedditPost">>,
             completers |-> << >> ]
      [] h = <<"reddit", "comment">> ->
           [ urls |-> {REDDIT_COMMENT},
             verifiers |-> <<"verifyPostReq", "verifyReadableFormData",
                             "verifyNewRequest", "verifyRedditComment">>,
             extractors |-> <<"extractRedditComment">>,
             completers |-> << >> ]
      [] h = <<"reddit", "postVote">> ->
           [ urls |-> {REDDIT_VOTE},
             verifiers |-> <<"verifyPostReq", "verifyReadableFormData",
                             "verifyNewRequest", "verifyRedditPostVote">>,
             extractors |-> <<"extractRedditPostVote">>,
             completers |-> << >> ]
      [] h = <<"reddit", "commentVote">> ->
           [ urls |-> {REDDIT_VOTE},
             verifiers |-> <<"verifyPostReq", "verifyReadableFormData",
                             "verifyNewRequest", "verifyRedditCommentVote">>,
             extractors |-> <<"extractRedditCommentVote">>,
             completers |-> << >> ]

\* ------------------------------------------------------------ raw requests
\* A form field that is absent is the empty string / the empty sequence.
FB_POST_NAME == "ComposerStoryCreateMutation"
FB_RESHARE_NAME == "useCometFeedToFeedReshare_FeedToFeedMutation"
FB_COMMENT_NAME == "UFI2CreateCommentMutation"
FB_REACT_NAMES == {"UFI2FeedbackReactMutation", "CometUFIFeedbackReactMutation"}

T3 == <<"t", "3", "_">>
T1 == <<"t", "1", "_">>

BaseRequest ==
    [ url |-> FB_GRAPHQL, method |-> "POST", body |-> "formData",
      tabId |-> 7, documentUrl |-> "https://example.org/page",
      fields |-> {},          \* names of the other form fields that are present
      id |-> << >>,           \* formData.id[0], as a sequence of characters
      fbName |-> "",          \* formData.fb_api_req_friendly_name[0]
      composerType |-> "",    \* composer_type nested in the payload
      baseState |-> "",       \* privacy.base_state nested in variables
      shareParamsInUrl |-> FALSE ]

\* The requests the browser is taken to issue: for each tracked URL pattern
\* one request per event type that is valid for it, and requests that a
\* verifier rejects, that an extractor rejects, or on which a verifier throws.
RequestSamples ==
    { [BaseRequest EXCEPT !.fbName = FB_POST_NAME, !.fields = {"variables"},
                          !.composerType = "status", !.baseState = "friends"],
      [BaseRequest EXCEPT !.fbName = FB_COMMENT_NAME, !.fields = {"variables"},
                          !.tabId = 8],
      [BaseRequest EXCEPT !.fbName = FB_RESHARE_NAME, !.fields = {"variables"},
                          !.baseState = "self"],
      [BaseRequest EXCEPT !.url = FB_OLD_SHARE,
                          !.fields = {"shared_from_post_id", "sharer_id"}],
      [BaseRequest EXCEPT !.url = REDDIT_VOTE, !.fields = {"dir"},
                          !.id = T3 \o <<"a">>],
      [BaseRequest EXCEPT !.url = REDDIT_VOTE, !.fields = {"dir"},
                          !.id = T1 \o <<"a">>],
      \* an old-Facebook post without a friendly name: verifyFacebookPost throws
      [BaseRequest EXCEPT !.url = FB_OLD_POST, !.fields = {"variables"}],
      \* a post without a privacy state: checkFacebookPostAudience throws
      [BaseRequest EXCEPT !.fbName = FB_POST_NAME, !.fields = {"variables"},
                          !.composerType = "status", !.tabId = 9],
      \* a comment sent with another method than POST
      [BaseRequest EXCEPT !.fbName = FB_COMMENT_NAME, !.fields = {"variables"},
                          !.tabId = 8, !.method = "PUT"] }

NoRequest == [BaseRequest EXCEPT !.url = ""]

\* ---------------------------------------------------------------- verifiers
\* A verifier yields "ok" (a truthy object), "null" (null or undefined) or
\* "throw" (a TypeError raised while reading an absent field).
\* ToNumber of a string is NaN unless the string is numeric.
StringIsNaN(str) == str \notin {"", "0", "1"}
\* !method == "POST": the negation is applied first, then the boolean is
\* compared with the string by converting both to numbers; NaN equals nothing.
NotMethodLooselyEqualsPOST(method) ==
    LET negated == IF method = "" THEN 1 ELSE 0
    IN  ~StringIsNaN("POST") /\ negated = (IF "POST" = "1" THEN 1 ELSE 0)

verifyPostReq(req) ==
    IF req = NoRequest THEN "null"
    ELSE IF NotMethodLooselyEqualsPOST(req.method) THEN "null"
    ELSE "ok"

verifyReadableFormData(req) ==
    IF req.body = "none" THEN "null"
    ELSE IF req.body # "formData" THEN "null"
    ELSE "ok"

\* A deduplication verifier that checks the request id but never records it.
verifyNewRequest_neverRecords(rid, processed) ==
    IF rid = 0 THEN [out |-> "null", processed |-> processed]
    ELSE IF rid \in processed THEN [out |-> "null", processed |-> processed]
    ELSE [out |-> "ok", processed |-> processed]

\* Returns the verifier's result and the Deduplication Set it leaves behind.
verifyNewRequest(rid, processed) ==
    IF rid = 0 THEN [out |-> "null", processed |-> processed]
    ELSE IF rid \in processed THEN [out |-> "null", processed |-> processed]
    ELSE [out |-> "ok", processed |-> processed \cup {rid}]

EndsWithSwJs(documentUrl) == documentUrl = "https://twitter.com/sw.js"

verifyTwitterTweet(req) ==
    IF "status" \notin req.fields THEN "null"
    ELSE IF req.tabId >= 0 THEN "ok"
    ELSE IF req.documentUrl = "" THEN "throw"
    ELSE IF EndsWithSwJs(req.documentUrl) THEN "ok"
    ELSE "null"

verifyTwitterRetweet(req) ==
    IF req.id = << >> THEN "null"
    ELSE IF req.tabId >= 0 THEN "ok"
    ELSE IF req.documentUrl = "" THEN "throw"
    ELSE IF EndsWithSwJs(req.documentUrl) THEN "ok"
    ELSE "null"

verifyTwitterFavorite(req) ==
    IF req.id = << >> THEN "null"
    ELSE IF req.tabId >= 0 THEN "ok"
    ELSE IF req.documentUrl = "" THEN "throw"
    ELSE IF EndsWithSwJs(req.documentUrl) THEN "ok"
    ELSE "null"

\* "yes", "no", or "throw" when the friendly name is absent (null.includes).
isThisPostAReshare(req) ==
    IF req.fbName = "" THEN "throw"
    ELSE IF req.fbName = FB_POST_NAME
         THEN (IF req.composerType = "share" THEN "yes" ELSE "no")
    ELSE "no"

verifyFacebookPost(req) ==
    IF "variables" \notin req.fields THEN "null"
    ELSE IF req.url = FB_GRAPHQL /\ req.fbName = "" THEN "throw"
    ELSE IF req.url = FB_GRAPHQL /\ req.fbName # FB_POST_NAME THEN "null"
    ELSE IF isThisPostAReshare(req) = "throw" THEN "throw"
    ELSE IF isThisPostAReshare(req) = "yes" THEN "null"
    ELSE "ok"

verifyFacebookReact(req) ==
    IF req.fbName = "" THEN "null"
    ELSE IF req.fbName \notin FB_REACT_NAMES THEN "null"
    ELSE "ok"

verifyFacebookComment(req) ==
    IF req.fbName = "" THEN "null"
    ELSE IF req.fbName # FB_COMMENT_NAME THEN "null"
    ELSE "ok"

verifyFacebookReshare(req) ==
    IF req.url = FB_GRAPHQL
    THEN IF req.fbName = "" THEN "null"
         ELSE IF req.fbName = FB_RESHARE_NAME THEN "ok"
         ELSE IF isThisPostAReshare(req) = "yes" THEN "ok"
         ELSE "null"
    ELSE IF {"shared_from_post_id", "sharer_id"} \subseteq req.fields THEN "ok"
    ELSE IF req.shareParamsInUrl THEN "ok"
    ELSE "null"

verifyRedditPost(req) == "ok"

verifyRedditComment(req) ==
    IF ~("thing_id" \in req.fields
         /\ ("richtext_json" \in req.fields \/ "text" \in req.fields))
    THEN "null" ELSE "ok"

\* A prefix test that compares the first character only.
StartsWith_firstCharacter(str, prefix) ==
    Len(str) >= Len(prefix) /\ SubSeq(str, 1, 1) = SubSeq(prefix, 1, 1)

StartsWith(str, prefix) ==
    Len(str) >= Len(prefix) /\ SubSeq(str, 1, Len(prefix)) = prefix

verifyRedditPostVote(req) ==
    IF ~(req.id # << >> /\ "dir" \in req.fields /\ StartsWith(req.id, T3))
    THEN "null" ELSE "ok"

verifyRedditCommentVote(req) ==
    IF ~(req.id # << >> /\ "dir" \in req.fields /\ StartsWith(req.id, T1))
    THEN "null" ELSE "ok"

\* Calls one verifier by name, as handleGenericEvent does with the entries of
\* handler.verifiers.
CallVerifier(name, req, rid, processed) ==
    IF name = "verifyNewRequest" THEN verifyNewRequest(rid, processed)
    ELSE [ out |->
             CASE name = "verifyPostReq" -> verifyPostReq(req)
               [] name = "verifyReadableFormData" -> verifyReadableFormData(req)
               [] name = "verifyTwitterTweet" -> verifyTwitterTweet(req)
               [] name = "verifyTwitterRetweet" -> verifyTwitterRetweet(req)
               [] name = "verifyTwitterFavorite" -> verifyTwitterFavorite(req)
               [] name = "verifyFacebookPost" -> verifyFacebookPost(req)
               [] name = "verifyFacebookReact" -> verifyFacebookReact(req)
               [] name = "verifyFacebookComment" -> verifyFacebookComment(req)
               [] name = "verifyFacebookReshare" -> verifyFacebookReshare(req)
               [] name = "verifyRedditPost" -> verifyRedditPost(req)
               [] name = "verifyRedditComment" -> verifyRedditComment(req)
               [] name = "verifyRedditPostVote" -> verifyRedditPostVote(req)
               [] name = "verifyRedditCommentVote" -> verifyRedditCommentVote(req),
           processed |-> processed ]

\* --------------------------------------------------------------- extractors
\* checkFacebookPostAudience reads base_state.toLowerCase(): it throws when a
\* post or reshare request carries no privacy state.
checkFacebookPostAudience(req) ==
    IF req.fbName = "" THEN "unknown"
    ELSE IF req.fbName \in {FB_POST_NAME, FB_RESHARE_NAME} /\ req.baseState = ""
         THEN "throw"
    ELSE IF req.fbName \notin {FB_POST_NAME, FB_RESHARE_NAME} THEN "unknown"
    ELSE IF req.baseState \in {"friends", "self"} THEN "restricted"
    ELSE IF req.baseState = "everyone" THEN "public"
    ELSE "unknown"

AsyncExtractors == {"extractFacebookReshare", "extractRedditCommentVote"}

\* What the call of an extractor yields in the synchronous section that calls
\* it: "details", "null" (no event), "throw", or "pending" for a promise that
\* a later answer of the content script or of the network settles.
CallExtractor(name, req) ==
    CASE name = "extractFacebookPost" ->
           IF checkFacebookPostAudience(req) = "throw" THEN "throw" ELSE "details"
      [] name = "extractFacebookReshare" ->
           IF req.url # FB_GRAPHQL THEN "null" ELSE "pending"
      [] name = "extractRedditPost" ->
           IF "title" \notin req.fields THEN "throw" ELSE "details"
      [] name = "extractRedditCommentVote" -> "pending"
      [] OTHER -> "details"

\* What the network answers to the fetch of getRedditThingContents: a listing
\* with the comment in it, a listing without children (or a body of any other
\* shape, or one that is not JSON), or no response at all (fetch is rejected).
FetchAnswers == {"listing", "emptyListing", "networkError"}

\* hydratedComment.data.children[0].data.link_id
LinkId(answer) == IF answer = "listing" THEN "t3_parent" ELSE ""

\* getRedditThingContents resolves with the parsed body; it has no rejection
\* handler and never calls reject, so that its promise stays pending when
\* fetch is rejected.
getRedditThingContents(answer) ==
    IF answer = "networkError" THEN "never" ELSE "resolved"

\* How a pending extractor settles: "details", "throw" (its promise is
\* rejected) or "never" (its promise stays pending for good).
\* extractRedditCommentVote resolves inside the then-callback of the fetch;
\* an exception in that callback (children[0] is undefined) rejects only the
\* promise that then() returned, which nobody holds.
SettleExtractor(name, req, answer) ==
    IF name = "extractFacebookReshare"
    THEN (IF checkFacebookPostAudience(req) = "throw" THEN "throw" ELSE "details")
    ELSE IF name = "extractRedditCommentVote"
    THEN (IF getRedditThingContents(answer) = "never" THEN "never"
          ELSE IF answer = "emptyListing" THEN "never"
          ELSE "details")
    ELSE "details"

\* The answer of the hydration fetch that the extractor received.
FetchAnswerOf(name, answer) ==
    IF name = "extractRedditCommentVote" THEN answer ELSE ""

\* details.postId of the event that a settled extractor resolved with.
PostIdOf(name, answer) ==
    IF name = "extractRedditCommentVote" THEN LinkId(answer) ELSE ""

\* A handler that does not wait for the extractor's promise.
Settled_always(out) == TRUE

\* await extractor(...): the function goes on once the promise has settled.
Settled(out) == out \notin {"pending", "never"}

\* ------------------------------------------------ the statistics reducer
\* WebScience.Measurements.AggregateStatistics.  A JavaScript object is the
\* sequence of its <<name, value>> properties in insertion order; the text
\* that JSON.stringify makes of a grouping key is the sequence of the key's
\* properties, and the empty sequence is the empty string.
MaxLog == 3         \* records in a storage object

Null == "null"

\* A property whose value is undefined is the pair without a value.
Has(obj, name) == \E n \in 1..Len(obj) : obj[n][1] = name
Defined(obj, name) == \E n \in 1..Len(obj) : obj[n][1] = name /\ Len(obj[n]) > 1
\* obj[name], for a property that has a value
Get(obj, name) == obj[CHOOSE n \in 1..Len(obj) : obj[n][1] = name][2]
\* obj[name] = value: an assignment keeps the place of a property that exists
PutPair(obj, pair) ==
    IF Has(obj, pair[1])
    THEN [n \in 1..Len(obj) |-> IF obj[n][1] = pair[1] THEN pair ELSE obj[n]]
    ELSE Append(obj, pair)
Put(obj, name, value) == PutPair(obj, <<name, value>>)
\* obj[name] = src[srcName], which may be undefined
Copy(obj, name, src, srcName) ==
    IF Defined(src, srcName) THEN Put(obj, name, Get(src, srcName))
    ELSE PutPair(obj, <<name>>)
\* Object.entries(obj).map(f)
MapEntries(f(_), obj) == [n \in 1..Len(obj) |-> f(obj[n])]
\* JSON.stringify(obj) of a flat object: properties without a value are left
\* out.  JSON.parse of the text gives the properties back in the same order.
JSONstringify(obj) == SelectSeq(obj, LAMBDA pair : Len(pair) > 1)
\* A parse that loses the first property of the text.
JSONparse_dropsFirst(text) == IF text = << >> THEN << >> ELSE Tail(text)
JSONparse(text) == text
\* value ? 1 : 0
Truthy01(obj, name) == IF Defined(obj, name) /\ Get(obj, name) = TRUE THEN 1 ELSE 0

\* A URL string is the sequence of its parts: scheme, "://", an optional
\* "www." label, the rest of the host, the path.
U_A == <<"https", "://", "www.", "a.com", "/x">>
U_A2 == <<"https", "://", "www.", "a.com", "/y">>
U_B == <<"https", "://", "b.org", "/">>
U_BAD == <<"b.org", "/x">>      \* no scheme: new URL(url) throws
U_EMPTY == << >>                \* the empty string

\* getHostName: the regular expression finds "://" anywhere in the string,
\* skips a "www." label and takes the host after it; null without a match.
getHostName(url) ==
    IF \E n \in 1..Len(url) : url[n] = "://"
    THEN LET n == CHOOSE m \in 1..Len(url) :
                     url[m] = "://" /\ \A j \in 1..(m - 1) : url[j] # "://"
             h == IF n + 1 <= Len(url) /\ url[n + 1] = "www." THEN n + 2 ELSE n + 1
         IN  IF h <= Len(url) /\ Len(url[h]) > 1 THEN url[h] ELSE Null
    ELSE Null

\* getDomain: the hostname of new URL(url), "www." included; the empty string
\* when the constructor throws.
getDomain(url) ==
    IF Len(url) >= 3 /\ url[2] = "://" /\ url[1] # ""
    THEN IF url[3] = "www." /\ Len(url) >= 4 THEN url[3] \o url[4] ELSE url[3]
    ELSE ""

\* A timestamp is a number of hours since a Sunday, 00:00 local time.
getDay(timestamp) == (timestamp \div 24) % 7
getHours(timestamp) == timestamp % 24
\* A fold that groups by the hour itself.
timeOfDay_hour(timestamp) == getHours(timestamp)

\* Math.floor(hourOfDay / 4) * 4
timeOfDay(timestamp) == (getHours(timestamp) \div 4) * 4

\* ---- page navigation
\* setup
pageNavigationSetup == << <<"trackedVisitsByDomain", << >>>> >>

\* The grouping key of a page visit inside its domain.
pageVisitIndex(navObj) ==
    JSONstringify(<< <<"referrerDomain", getDomain(Get(navObj, "referrer"))>>,
                     <<"dayOfWeek", getDay(Get(navObj, "visitStart"))>>,
                     <<"timeOfDay", timeOfDay(Get(navObj, "visitStart"))>>,
                     IF Defined(navObj, "classification")
                     THEN <<"pageCategory", Get(navObj, "classification")>>
                     ELSE <<"pageCategory">> >>)

\* A fold that keeps the attention of the last visit instead of the sum.
pageVisitCount_lastAttention(specificObj, navObj) ==
    IF specificObj # << >>
    THEN << <<"numVisits", Get(specificObj, "numVisits") + 1>>,
            <<"totalAttention", Get(navObj, "attentionDuration")>>,
            <<"laterSharedCount", Get(specificObj, "laterSharedCount")
                                    + Truthy01(navObj, "laterShared")>>,
            <<"prevExposedCount", Get(specificObj, "prevExposedCount")
                                    + Truthy01(navObj, "prevExposed")>> >>
    ELSE << <<"numVisits", 1>>,
            <<"totalAttention", Get(navObj, "attentionDuration")>>,
            <<"laterSharedCount", Truthy01(navObj, "laterShared")>>,
            <<"prevExposedCount", Truthy01(navObj, "prevExposed")>> >>

\* The counts of a bucket after one more visit; specificObj is << >> when the
\* bucket does not exist yet.
pageVisitCount(specificObj, navObj) ==
    IF specificObj # << >>
    THEN << <<"numVisits", Get(specificObj, "numVisits") + 1>>,
            <<"totalAttention", Get(specificObj, "totalAttention")
                                  + Get(navObj, "attentionDuration")>>,
            <<"laterSharedCount", Get(specificObj, "laterSharedCount")
                                    + Truthy01(navObj, "laterShared")>>,
            <<"prevExposedCount", Get(specificObj, "prevExposedCount")
                                    + Truthy01(navObj, "prevExposed")>> >>
    ELSE << <<"numVisits", 1>>,
            <<"totalAttention", Get(navObj, "attentionDuration")>>,
            <<"laterSharedCount", Truthy01(navObj, "laterShared")>>,
            <<"prevExposedCount", Truthy01(navObj, "prevExposed")>> >>

\* compute: the fold of one record.  The else-branch tests the assignment
\* navObj.type = "untrackedVisitCount", which is a non-empty string: it is
\* taken by every record that is not a pageVisit.
pageNavigationCompute(navObj, stats) ==
    IF Defined(navObj, "type") /\ Get(navObj, "type") = "pageVisit"
    THEN LET domainIndex == JSONstringify(<< <<"domain", getDomain(Get(navObj, "url"))>> >>)
             byDomain == Get(stats, "trackedVisitsByDomain")
             domainObj == IF Has(byDomain, domainIndex) THEN Get(byDomain, domainIndex)
                          ELSE << <<"visitsByReferrer", << >>>> >>
             visits == Get(domainObj, "visitsByReferrer")
             index == pageVisitIndex(navObj)
             specificObj == IF Has(visits, index) THEN Get(visits, index) ELSE << >>
             counted == Put(visits, index, pageVisitCount(specificObj, navObj))
         IN  Put(stats, "trackedVisitsByDomain",
                 Put(byDomain, domainIndex,
                     Put(domainObj, "visitsByReferrer", counted)))
    ELSE Copy(stats, "numUntrackedVisits", navObj, "numUntrackedVisits")

\* The record after the fold has read it: the test of the else-branch assigns
\* to navObj.type.
pageNavigationRecord(navObj) ==
    IF Defined(navObj, "type") /\ Get(navObj, "type") = "pageVisit" THEN navObj
    ELSE Put(navObj, "type", "untrackedVisitCount")

\* gather: every keyed map becomes the array of its parsed keys merged with
\* the counts.
pageVisitEntry(pair) ==
    LET entry == JSONparse(pair[1])
    IN  Put(Put(Put(Put(entry, "numVisits", Get(pair[2], "numVisits")),
                    "totalAttention", Get(pair[2], "totalAttention")),
                "prevExposedCount", Get(pair[2], "prevExposedCount")),
            "laterSharedCount", Get(pair[2], "laterSharedCount"))
pageDomainEntry(pair) ==
    LET entry == JSONparse(pair[1])
    IN  Put(Copy(entry, "numUntrackedVisits", pair[2], "numUntrackedVisits"),
            "trackedVisitsByReferrer",
            MapEntries(pageVisitEntry, Get(pair[2], "visitsByReferrer")))
pageNavigationGather(r) ==
    Put(r, "trackedVisitsByDomain",
        MapEntries(pageDomainEntry, Get(r, "trackedVisitsByDomain")))

\* ---- link exposure
linkExposureSetup == << <<"untrackedLinkExposures", << >>>>, <<"linkExposures", << >>>> >>

linkExposureIndex(exposureObj) ==
    JSONstringify(
        << <<"sourceDomain", getDomain(Get(Get(exposureObj, "metadata"), "location"))>>,
           <<"destinationDomain", getDomain(Get(exposureObj, "url"))>>,
           <<"dayOfWeek", getDay(Get(exposureObj, "firstSeen"))>>,
           <<"visThreshold", Get(exposureObj, "visThreshold")>> >>)

\* current.laterVisitedCount + exposureObj.laterVisited ? 1 : 0
\* the sum is the condition of the conditional; with laterVisited undefined
\* the sum is NaN.
laterVisitedCountAfter(current, exposureObj) ==
    IF ~Defined(exposureObj, "laterVisited") THEN 0
    ELSE IF Get(current, "laterVisitedCount") + Truthy01(exposureObj, "laterVisited") # 0
         THEN 1 ELSE 0

\* stats.untrackedLinkExposures[thresholdObj.threshold] = thresholdObj.numUntracked
\* for every entry of untrackedCounts
RECURSIVE untrackedCountsInto(_, _)
untrackedCountsInto(untracked, untrackedCounts) ==
    IF untrackedCounts = << >> THEN untracked
    ELSE LET thresholdObj == Head(untrackedCounts)[2]
         IN  untrackedCountsInto(
                 Put(untracked, Get(thresholdObj, "threshold"),
                     Get(thresholdObj, "numUntracked")),
                 Tail(untrackedCounts))

linkExposureCompute(exposureObj, stats) ==
    IF Defined(exposureObj, "type") /\ Get(exposureObj, "type") = "linkExposure"
    THEN LET index == linkExposureIndex(exposureObj)
             exposures == Get(stats, "linkExposures")
         IN  IF ~Has(exposures, index)
             THEN Put(stats, "linkExposures",
                      Put(exposures, index,
                          << <<"numExposures", 1>>,
                             <<"laterVisitedCount", Truthy01(exposureObj, "laterVisited")>> >>))
             ELSE LET current == Get(exposures, index)
                  IN  Put(stats, "linkExposures",
                          Put(exposures, index,
                              << <<"numExposures", Get(current, "numExposures") + 1>>,
                                 <<"laterVisitedCount",
                                   laterVisitedCountAfter(current, exposureObj)>> >>))
    ELSE IF Defined(exposureObj, "type") /\ Get(exposureObj, "type") = "numUntrackedUrls"
    THEN Put(stats, "untrackedLinkExposures",
             untrackedCountsInto(Get(stats, "untrackedLinkExposures"),
                                 Get(exposureObj, "untrackedCounts")))
    ELSE stats

linkExposureEntry(pair) ==
    LET entry == JSONparse(pair[1])
    IN  Put(Put(entry, "numExposures", Get(pair[2], "numExposures")),
            "laterVisitedCount", Get(pair[2], "laterVisitedCount"))
linkExposureGather(r) ==
    Put(r, "linkExposures", MapEntries(linkExposureEntry, Get(r, "linkExposures")))

\* ---- social media link sharing
fbIndex == JSONstringify(<< <<"platform", "facebook">> >>)
twIndex == JSONstringify(<< <<"platform", "twitter">> >>)
rdIndex == JSONstringify(<< <<"platform", "reddit">> >>)

emptyPlatformObj == << <<"trackedShares", << >>>>, <<"numUntrackedShares", 0>> >>
socialMediaLinkSharingSetup ==
    << <<"linkSharesByPlatform",
         << <<fbIndex, emptyPlatformObj>>, <<twIndex, emptyPlatformObj>>,
            <<rdIndex, emptyPlatformObj>> >> >> >>

\* platformIndex: "" (the empty text) for a platform that is none of the three
platformIndexOf(val) ==
    IF ~Defined(val, "platform") THEN << >>
    ELSE IF Get(val, "platform") = "reddit" THEN rdIndex
    ELSE IF Get(val, "platform") = "twitter" THEN twIndex
    ELSE IF Get(val, "platform") = "facebook" THEN fbIndex
    ELSE << >>

\* visitReferrer: the domain of the first referrer, null without one
visitReferrerOf(val) ==
    IF Defined(val, "prevVisitReferrers") /\ Len(Get(val, "prevVisitReferrers")) > 0
    THEN getDomain(Get(val, "prevVisitReferrers")[1])
    ELSE Null

linkShareIndex(val) ==
    JSONstringify(
        << <<"domain", getHostName(Get(val, "url"))>>,
           IF Defined(val, "classification")
           THEN <<"classification", Get(val, "classification")>> ELSE <<"classification">>,
           IF Defined(val, "audience")
           THEN <<"audience", Get(val, "audience")>> ELSE <<"audience">>,
           IF Defined(val, "source")
           THEN <<"source", Get(val, "source")>> ELSE <<"source">>,
           <<"visitReferrer", visitReferrerOf(val)>> >>)

\* numUntrackedShares += val.<platform> for one platform
addUntrackedShares(platforms, index, val, field) ==
    Put(platforms, index,
        Put(Get(platforms, index), "numUntrackedShares",
            Get(Get(platforms, index), "numUntrackedShares") + Get(val, field)))

\* The object created for a platform that is none of the three has no
\* trackedShares: reading platformObj.trackedShares[index] throws.
socialMediaLinkSharingThrows(val, stats) ==
    /\ Defined(val, "type") /\ Get(val, "type") = "linkShare"
    /\ LET platforms == Get(stats, "linkSharesByPlatform")
           platformIndex == platformIndexOf(val)
       IN  \/ ~Has(platforms, platformIndex)
           \/ ~Has(Get(platforms, platformIndex), "trackedShares")

socialMediaLinkSharingCompute(val, stats) ==
    LET type == IF Defined(val, "type") THEN Get(val, "type") ELSE ""
        platforms == Get(stats, "linkSharesByPlatform")
    IN  IF type = "numUntrackedShares"
        THEN Put(stats, "linkSharesByPlatform",
                 addUntrackedShares(
                     addUntrackedShares(
                         addUntrackedShares(platforms, fbIndex, val, "facebook"),
                         twIndex, val, "twitter"),
                     rdIndex, val, "reddit"))
        ELSE IF type = "linkShare"
        THEN LET platformIndex == platformIndexOf(val)
                 platformObj == IF Has(platforms, platformIndex)
                                THEN Get(platforms, platformIndex) ELSE << >>
             IN  IF ~Has(platformObj, "trackedShares")
                 THEN Put(stats, "linkSharesByPlatform",
                          Put(platforms, platformIndex, platformObj))
                 ELSE LET shares == Get(platformObj, "trackedShares")
                          index == linkShareIndex(val)
                          specificObj ==
                              IF Has(shares, index)
                              THEN << <<"trackedSharesCount",
                                        Get(Get(shares, index), "trackedSharesCount") + 1>>,
                                      <<"prevExposedCount",
                                        Get(Get(shares, index), "prevExposedCount")
                                          + Truthy01(val, "prevExposed")>> >>
                              ELSE << <<"trackedSharesCount", 1>>,
                                      <<"prevExposedCount", Truthy01(val, "prevExposed")>> >>
                      IN  Put(stats, "linkSharesByPlatform",
                              Put(platforms, platformIndex,
                                  Put(platformObj, "trackedShares",
                                      Put(shares, index, specificObj))))
        ELSE stats

linkShareEntry(pair) == Put(JSONparse(pair[1]), "numShares", pair[2])
linkSharePlatformEntry(pair) ==
    LET entry == JSONparse(pair[1])
    IN  Put(Put(entry, "numUntrackedShares", Get(pair[2], "numUntrackedShares")),
            "trackedShares", MapEntries(linkShareEntry, Get(pair[2], "trackedShares")))
socialMediaLinkSharingGather(r) ==
    Put(r, "linkSharesByPlatform",
        MapEntries(linkSharePlatformEntry, Get(r, "linkSharesByPlatform")))

\* ---- social media account exposure
\* NaN is written -1, which no count is.
NaN == -1
Plus(x, y) == IF x = NaN \/ y = NaN THEN NaN ELSE x + y

\* The properties that the target {} of the proxy inherits from
\* Object.prototype (some of them); their values are functions, which have a
\* name and a length and no count.
ObjectPrototypeNames == {"constructor", "toString"}
FunctionObject == << <<"length", 1>> >>

\* The caller-supplied default of account_posts.
accountDefaultValue == << <<"platform", "">>, <<"count", 0>> >>

\* objectWithDefaultValue: the get trap,
\* (property in obj) ? obj[property] : defaultValue()
\* where "in" also finds the properties that obj inherits.
proxyGet(obj, property) ==
    IF Has(obj, property) THEN Get(obj, property)
    ELSE IF property \in ObjectPrototypeNames THEN FunctionObject
    ELSE accountDefaultValue

\* value.count + 1: undefined + 1 is NaN
countPlusOne(value) ==
    IF Defined(value, "count") THEN Plus(Get(value, "count"), 1) ELSE NaN

\* The property name that post.account is converted to.
accountProperty(post) ==
    IF Defined(post, "account") THEN Get(post, "account") ELSE "undefined"

socialMediaAccountExposureSetup == << <<"account_posts", << >>>> >>

\* val.posts.forEach(post => ...): one assignment through the proxy per post
RECURSIVE accountPostsInto(_, _, _)
accountPostsInto(obj, posts, platform) ==
    IF posts = << >> THEN obj
    ELSE accountPostsInto(
             Put(obj, accountProperty(Head(posts)),
                 << <<"platform", platform>>,
                    <<"count", countPlusOne(proxyGet(obj, accountProperty(Head(posts))))>> >>),
             Tail(posts), platform)

socialMediaAccountExposureCompute(val, stats) ==
    Put(stats, "account_posts",
        accountPostsInto(Get(stats, "account_posts"), Get(val, "posts"),
                         Get(val, "platform")))

\* copyDefaultValueObject: the own properties of the wrapped object, read
\* through the proxy
copyDefaultValueObject(obj) ==
    [n \in 1..Len(obj) |-> <<obj[n][1], proxyGet(obj, obj[n][1])>>]
\* gatherStats
gatherStats(statsObj) ==
    [n \in 1..Len(statsObj) |-> <<statsObj[n][1], copyDefaultValueObject(statsObj[n][2])>>]

\* ---- functionMapping and computeStats
PageNavigation == "WebScience.Measurements.PageNavigation"
LinkExposure == "WebScience.Measurements.LinkExposure"
SocialMediaLinkSharing == "WebScience.Measurements.SocialMediaLinkSharing"
SocialMediaAccountExposure == "WebScience.Measurements.SocialMediaAccountExposure"
functionMapping == {PageNavigation, LinkExposure, SocialMediaLinkSharing}

Setup(key) ==
    CASE key = PageNavigation -> pageNavigationSetup
      [] key = LinkExposure -> linkExposureSetup
      [] key = SocialMediaLinkSharing -> socialMediaLinkSharingSetup
      [] key = SocialMediaAccountExposure -> socialMediaAccountExposureSetup
Compute(key, entry, stats) ==
    CASE key = PageNavigation -> pageNavigationCompute(entry, stats)
      [] key = LinkExposure -> linkExposureCompute(entry, stats)
      [] key = SocialMediaLinkSharing -> socialMediaLinkSharingCompute(entry, stats)
      [] key = SocialMediaAccountExposure -> socialMediaAccountExposureCompute(entry, stats)
\* What compute leaves of the entry that it was given.
Record(key, entry) ==
    IF key = PageNavigation THEN pageNavigationRecord(entry) ELSE entry
Throws(key, entry, stats) ==
    key = SocialMediaLinkSharing /\ socialMediaLinkSharingThrows(entry, stats)
Gather(key, stats) ==
    CASE key = PageNavigation -> pageNavigationGather(stats)
      [] key = LinkExposure -> linkExposureGather(stats)
      [] key = SocialMediaLinkSharing -> socialMediaLinkSharingGather(stats)
      [] key = SocialMediaAccountExposure -> gatherStats(stats)

\* The forEach of computeStats over the entries of the storage object.
RECURSIVE foldEntries(_, _, _)
foldEntries(key, entries, stats) ==
    IF entries = << >> THEN [thrown |-> FALSE, stats |-> stats]
    ELSE IF Throws(key, Head(entries), stats)
    THEN [thrown |-> TRUE, stats |-> Compute(key, Head(entries), stats)]
    ELSE foldEntries(key, Tail(entries), Compute(key, Head(entries), stats))

\* computeStats: setup, the fold, gather; an exception of the fold leaves it.
computeStats(key, storageInstance) ==
    LET f == foldEntries(key, storageInstance, Setup(key))
    IN  IF f.thrown THEN [thrown |-> TRUE, result |-> << >>]
        ELSE [thrown |-> FALSE, result |-> Gather(key, f.stats)]

\* ---- the records of the storage objects
pageVisit(url, referrer, visitStart, attentionDuration, laterShared, prevExposed) ==
    << <<"type", "pageVisit">>, <<"url", url>>, <<"referrer", referrer>>,
       <<"visitStart", visitStart>>, <<"classification", "news">>,
       <<"attentionDuration", attentionDuration>>,
       <<"laterShared", laterShared>>, <<"prevExposed", prevExposed>> >>
linkExposure(location, url, laterVisited) ==
    << <<"type", "linkExposure">>, <<"metadata", << <<"location", location>> >> >>,
       <<"url", url>>, <<"firstSeen", 13>>, <<"visThreshold", 50>>,
       <<"laterVisited", laterVisited>> >>
numUntrackedUrls(numUntracked) ==
    << <<"type", "numUntrackedUrls">>,
       <<"untrackedCounts",
         << <<50, << <<"threshold", 50>>, <<"numUntracked", numUntracked>> >> >> >> >> >>
linkShare(platform, url, referrers, prevExposed) ==
    << <<"type", "linkShare">>, <<"platform", platform>>, <<"url", url>>,
       <<"classification", "news">>, <<"audience", "public">>,
       <<"source", "person">>, <<"prevVisitReferrers", referrers>>,
       <<"prevExposed", prevExposed>> >>
numUntrackedShares(facebook, twitter, reddit) ==
    << <<"type", "numUntrackedShares">>, <<"facebook", facebook>>,
       <<"twitter", twitter>>, <<"reddit", reddit>> >>

accountPost(account) ==
    << <<"post", "https://www.youtube.com/watch">>, <<"account", account>> >>
accountExposure(platform, posts) ==
    << <<"type", SocialMediaAccountExposure>>, <<"posts", posts>>,
       <<"platform", platform>> >>

\* For each storage object the records its logs are made of: visits that
\* fall in one group, in groups that differ in the domain only, visits with a
\* malformed URL, summary records, and a record of another type.
RecordSamples(key) ==
    CASE key = PageNavigation ->
           { pageVisit(U_A, U_B, 13, 2, TRUE, FALSE),
             pageVisit(U_A2, U_B, 14, 3, FALSE, TRUE),
             pageVisit(U_B, U_B, 13, 2, FALSE, FALSE),
             pageVisit(U_BAD, U_EMPTY, 37, 1, TRUE, TRUE),
             << <<"type", "untrackedVisitCount">>, <<"numUntrackedVisits", 5>> >>,
             << <<"type", "untrackedVisitCount">>, <<"numUntrackedVisits", 7>> >>,
             << <<"type", "pageVisitEnd">> >> }
      [] key = LinkExposure ->
           { linkExposure(U_A, U_B, TRUE), linkExposure(U_A2, U_B, TRUE),
             linkExposure(U_A, U_B, FALSE), linkExposure(U_A, U_BAD, TRUE),
             numUntrackedUrls(4), numUntrackedUrls(6) }
      [] key = SocialMediaLinkSharing ->
           { linkShare("facebook", U_A, <<U_B>>, TRUE),
             linkShare("facebook", U_A2, <<U_B, U_A>>, FALSE),
             linkShare("twitter", U_BAD, <<U_BAD>>, TRUE),
             linkShare("youtube", U_B, << >>, FALSE),
             numUntrackedShares(3, 0, 1), numUntrackedShares(1, 2, 0) }
      [] key = SocialMediaAccountExposure ->
           { accountExposure("YouTube", <<accountPost("a")>>),
             accountExposure("Twitter", <<accountPost("a"), accountPost("b")>>),
             accountExposure("Twitter", <<accountPost("b"), accountPost("b")>>),
             \* an account whose name a property of Object.prototype has
             accountExposure("Twitter", <<accountPost("constructor")>>),
             \* channels[0] of an empty list of channels: no account
             accountExposure("YouTube",
                             << << <<"post", "https://www.youtube.com/watch">>,
                                   <<"account">> >> >>) }

\* The storage objects: the logs of at most MaxLog records, in iteration order.
Logs(key) ==
    UNION { [1..n -> RecordSamples(key)] : n \in 0..MaxLog }

\* ------------------------------------------------------ findFieldFacebook
\* A JavaScript value is the record of its type and its content.  A string is
\* the sequence of its parts; a string that is the JSON text of a value has
\* the type "json" and the value as its content.  An object is the sequence
\* of its <<name, value>> properties, an array the sequence of its elements.
JNull == [t |-> "null", v |-> 0]
JNum(n) == [t |-> "num", v |-> n]
JStr(parts) == [t |-> "str", v |-> parts]
JText(value) == [t |-> "json", v |-> value]
JArr(items) == [t |-> "arr", v |-> items]
JObj(props) == [t |-> "obj", v |-> props]

\* JSON.parse(x): x is first converted to a string.  null and a number give
\* their own text; an array gives the texts of its elements joined by commas,
\* which is the text of the element when there is one element (the empty
\* text for null); an object gives "[object Object]".  ok is FALSE when
\* JSON.parse throws.
RECURSIVE JSONparseOf(_)
JSONparseOf(x) ==
    CASE x.t \in {"null", "num"} -> [ok |-> TRUE, value |-> x]
      [] x.t = "json" -> [ok |-> TRUE, value |-> x.v]
      [] x.t = "arr" ->
           IF Len(x.v) = 1 /\ x.v[1].t \in {"num", "json", "arr"}
           THEN JSONparseOf(x.v[1])
           ELSE [ok |-> FALSE, value |-> JNull]
      [] OTHER -> [ok |-> FALSE, value |-> JNull]

\* typeof(object) == "object", for a value that is not null
IsObject(x) == x.t \in {"arr", "obj"}
\* fieldName in object; an array has its indices and "length" only
FieldIn(fieldName, x) == x.t = "obj" /\ Has(x.v, fieldName)
\* the values that for (const subObject in object) goes through
Children(x) ==
    IF x.t = "arr" THEN x.v ELSE [n \in 1..Len(x.v) |-> x.v[n][2]]

\* result = object[fieldName][0] when the value is an array and enterArray
\* is set, and then, in either case, result = object[fieldName].
DirectResult(value, enterArray) == value

\* if (recurseLevel <= 0) return null, and the same with the test one level late
limitReached_late(recurseLevel) == recurseLevel <= -1
limitReached(recurseLevel) == recurseLevel <= 0

RECURSIVE findFieldFacebook(_, _, _, _)
RECURSIVE findInChildren(_, _, _, _)
findFieldFacebook(object, fieldName, enterArray, recurseLevel) ==
    IF limitReached(recurseLevel) THEN JNull
    ELSE IF object.t = "null" THEN JNull
    ELSE IF IsObject(object) /\ FieldIn(fieldName, object)
    THEN LET result == DirectResult(Get(object.v, fieldName), enterArray)
         IN  IF JSONparseOf(result).ok THEN JSONparseOf(result).value ELSE result
    ELSE IF JSONparseOf(object).ok
    THEN findFieldFacebook(JSONparseOf(object).value, fieldName, enterArray,
                           recurseLevel - 1)
    ELSE IF IsObject(object)
    THEN findInChildren(Children(object), fieldName, enterArray, recurseLevel - 1)
    ELSE JNull
\* the loop over the children: the first result that is not null
findInChildren(children, fieldName, enterArray, recurseLevel) ==
    IF children = << >> THEN JNull
    ELSE LET result == findFieldFacebook(Head(children), fieldName, enterArray,
                                         recurseLevel)
         IN  IF result # JNull THEN result
             ELSE findInChildren(Tail(children), fieldName, enterArray, recurseLevel)

\* The calls that findFieldFacebook(object, ...) makes of itself, itself
\* included, in call order: each with the value it is called on, its
\* recurseLevel and what it returns.
RECURSIVE callsOf(_, _, _, _)
RECURSIVE callsOnChildren(_, _, _, _)
callsOf(value, name, enter, recurseLevel) ==
    LET call == [object |-> value, recurseLevel |-> recurseLevel,
                 result |-> findFieldFacebook(value, name, enter, recurseLevel)]
    IN  IF limitReached(recurseLevel) THEN <<call>>
        ELSE IF value.t = "null" THEN <<call>>
        ELSE IF IsObject(value) /\ FieldIn(name, value) THEN <<call>>
        ELSE IF JSONparseOf(value).ok
        THEN <<call>> \o callsOf(JSONparseOf(value).value, name, enter, recurseLevel - 1)
        ELSE IF IsObject(value)
        THEN <<call>> \o callsOnChildren(Children(value), name, enter, recurseLevel - 1)
        ELSE <<call>>
\* the loop stops at the first child with a result that is not null
callsOnChildren(children, name, enter, recurseLevel) ==
    IF children = << >> THEN << >>
    ELSE callsOf(Head(children), name, enter, recurseLevel)
         \o (IF findFieldFacebook(Head(children), name, enter, recurseLevel) # JNull
             THEN << >>
             ELSE callsOnChildren(Tail(children), name, enter, recurseLevel))

\* value.includes(text): of an array, an element that is the text; of a
\* string, a part of it
Includes(value, text) ==
    CASE value.t = "arr" -> \E n \in 1..Len(value.v) : value.v[n] = JStr(<<text>>)
      [] value.t = "str" -> \E n \in 1..Len(value.v) : value.v[n] = text
      [] OTHER -> FALSE

\* requestDetails.requestBody.formData
formDataOf(requestDetails) ==
    Get(Get(requestDetails.v, "requestBody").v, "formData")

\* verifyFacebookReact on the request as the browser hands it over: "null",
\* "throw" (includes is called on a value that has no such method) or "ok"
\* with the reactionRequest.
verifyFacebookReactRequest(requestDetails) ==
    LET formData == formDataOf(requestDetails)
        friendlyName == findFieldFacebook(requestDetails, "fb_api_req_friendly_name",
                                          TRUE, 5)
    IN  IF ~Has(formData.v, "fb_api_req_friendly_name")
        THEN [out |-> "null", reactionRequest |-> JNull]
        ELSE IF friendlyName.t \notin {"arr", "str"}
        THEN [out |-> "throw", reactionRequest |-> JNull]
        ELSE IF ~(Includes(friendlyName, "UFI2FeedbackReactMutation")
                  \/ Includes(friendlyName, "CometUFIFeedbackReactMutation"))
        THEN [out |-> "null", reactionRequest |-> JNull]
        ELSE [out |-> "ok",
              reactionRequest |-> findFieldFacebook(formData, "variables", TRUE, 5)]

\* reaction == n: a number equals itself, the empty string and the empty
\* array equal 0, an array of one number equals that number
LooselyEquals(reaction, n) ==
    CASE reaction.t = "num" -> reaction.v = n
      [] reaction.t = "str" -> reaction.v = << >> /\ n = 0
      [] reaction.t = "arr" ->
           \/ reaction.v = << >> /\ n = 0
           \/ Len(reaction.v) = 1 /\ reaction.v[1] = JNum(n)
      [] OTHER -> FALSE

\* extractFacebookReact: details.reactionType
extractFacebookReact(verified) ==
    LET reaction == findFieldFacebook(verified.reactionRequest, "feedback_reaction",
                                      TRUE, 5)
    IN  IF LooselyEquals(reaction, 0) THEN "remove"
        ELSE IF LooselyEquals(reaction, 1) THEN "like"
        ELSE IF LooselyEquals(reaction, 2) THEN "love"
        ELSE IF LooselyEquals(reaction, 16) THEN "care"
        ELSE IF LooselyEquals(reaction, 4) THEN "haha"
        ELSE IF LooselyEquals(reaction, 3) THEN "wow"
        ELSE IF LooselyEquals(reaction, 7) THEN "sad"
        ELSE IF LooselyEquals(reaction, 8) THEN "angry"
        ELSE "unknown"

\* ---- the values that the lookups are applied to
MaxReaction == 9    \* the feedback_reaction values are 0..MaxReaction and 16

\* What a field can hold: null, a number, a string, an array of one string,
\* an array of two, an array of one JSON text, a JSON text.
LookupLeaves ==
    { JNull, JNum(2), JStr(<<"x">>), JArr(<<JStr(<<"x">>)>>),
      JArr(<<JStr(<<"x">>), JStr(<<"y">>)>>),
      JArr(<<JText(JObj(<< <<"k", JNum(1)>> >>))>>),
      JText(JObj(<< <<"id", JNum(3)>> >>)) }
\* value wrapped n times: as the JSON text of the JSON text of ..., as the
\* only element of an array of an array of ..., as the only property of an
\* object of an object of ...
RECURSIVE Wrapped(_, _, _)
Wrapped(kind, value, n) ==
    IF n = 0 THEN value
    ELSE LET inner == Wrapped(kind, value, n - 1)
         IN  CASE kind = "json" -> JText(inner)
               [] kind = "arr" -> JArr(<<inner>>)
               [] kind = "obj" -> JObj(<< <<"wrap", inner>> >>)
\* The deepest wrapping of the payloads
MaxWrap == 6
\* Payloads that no request of Facebook's has: a number, whose text parses to
\* itself, a string that is no JSON text, texts that decode to further texts,
\* nested arrays and objects, around an object with the field or a number.
MalformedPayloads ==
    { JNum(4), JStr(<<"x">>), JText(JStr(<<"x">>)), JArr(<< >>), JObj(<< >>),
      JArr(<<JNum(4), JObj(<< <<"id", JNum(1)>> >>)>>),
      JObj(<< <<"n", JNum(4)>>, <<"s", JText(JText(JNum(4)))>>,
              <<"wrap", JObj(<< <<"id", JNum(1)>> >>)>> >>) }
    \cup { Wrapped(kind, core, n) :
              kind \in {"json", "arr", "obj"},
              core \in {JObj(<< <<"id", JNum(1)>> >>), JNum(4)},
              n \in 1..MaxWrap }
\* Objects with the field at the top, one level down, at both places, and
\* below the recursion limit.
LookupObjects ==
    { JObj(<< <<"id", leaf>> >>) : leaf \in LookupLeaves }
    \cup { JObj(<< <<"other", JNum(0)>>, <<"wrap", JObj(<< <<"id", leaf>> >>)>> >>) :
             leaf \in LookupLeaves }
    \cup { JObj(<< <<"wrap", JObj(<< <<"id", deep>> >>)>>, <<"id", leaf>> >>) :
             leaf \in LookupLeaves, deep \in {JNum(9), JArr(<<JStr(<<"z">>)>>)} }
    \cup { JObj(<< <<"a", JObj(<< <<"b", JObj(<< <<"c", JObj(<< <<"d",
               JObj(<< <<"e", JObj(<< <<"id", JNum(1)>> >>)>> >>)>> >>)>> >>)>> >>)>> >>) }
    \cup MalformedPayloads

FriendlyNames ==
    { <<"UFI2FeedbackReactMutation">>, <<"CometUFIFeedbackReactMutation">>,
      <<"use", "CometUFIFeedbackReactMutation", "_v2">>,
      <<"ComposerStoryCreateMutation">> }
Reactions == {JNum(n) : n \in (0..MaxReaction) \cup {16}} \cup {JNull}

\* A request to the graphql endpoint as onBeforeRequest hands it over: every
\* form field is the array of its values, variables is a JSON text.
reactRequest(friendlyName, reaction) ==
    JObj(<< <<"requestId", JText(JNum(12))>>,
            <<"url", JStr(<<FB_GRAPHQL>>)>>,
            <<"method", JStr(<<"POST">>)>>,
            <<"requestBody",
              JObj(<< <<"formData",
                        JObj(<< <<"fb_api_req_friendly_name", JArr(<<JStr(friendlyName)>>)>>,
                                <<"variables",
                                  JArr(<<JText(JObj(<< <<"input",
                                      JObj(IF reaction = JNull
                                           THEN << <<"feedback_id", JStr(<<"feedback:1">>)>> >>
                                           ELSE << <<"feedback_id", JStr(<<"feedback:1">>)>>,
                                                   <<"feedback_reaction", reaction>> >>)>> >>))>>)>>
                             >>)>> >>)>>,
            <<"tabId", JNum(7)>> >>)
ReactRequests ==
    {reactRequest(friendlyName, reaction) :
        friendlyName \in FriendlyNames, reaction \in Reactions}
    \cup { JObj(<< <<"requestId", JText(JNum(12))>>,
                   <<"requestBody", JObj(<< <<"formData",
                        JObj(<< <<"variables", JArr(<<JText(JObj(<< >>))>>)>> >>)>> >>)>> >>) }

NotCalled == [t |-> "none", v |-> 0]
NotVerified == [out |-> "none", reactionRequest |-> JNull]

\* -------------------------------------------------------------------- state
VARIABLES
    clientCallbacks,         \* handler -> [blocking, nonblocking]: callbacks, in registration order
    registeredListener,      \* handler.registeredListener: the hook's id, 0 for null
    registeredBlockingType,  \* handler.registeredBlockingType, "null" before the first hook
    webRequestListeners,     \* the hooks installed in browser.webRequest.onBeforeRequest
    nRegs,                   \* registration calls made so far
    fbPostContentSetUp,
    facebookTabId,
    processedRequestIds,     \* the Deduplication Set
    requests,                \* request id -> the request the browser issued under it
    execs,                   \* the calls of handleGenericEvent, in call order
    statsKey,                \* the key of functionMapping that computeStats runs for
    storageInstance,         \* the entries of the storage object, in iteration order
    folded,                  \* the number of entries that forEach has gone through
    stats,                   \* the accumulator
    aggregate,               \* what computeStats returned
    rpc,                     \* "off", "fold", "done" or "thrown"
    object,                  \* the value that a lookup or the react handler is given
    fieldName,               \* findFieldFacebook's fieldName
    enterArray,              \* findFieldFacebook's enterArray
    found,                   \* what findFieldFacebook returned
    descent,                 \* the calls that findFieldFacebook made of itself
    verified,                \* what verifyFacebookReact returned
    reactionType,            \* details.reactionType of extractFacebookReact, "" before
    candidate,               \* the request that the verifiers are called with
    verdict,                 \* verifier -> what it returned, "none" before its call
    windowHas,               \* which of PageManager, pageManagerHasLoaded the window has
    pageManagerHasLoaded,    \* window.pageManagerHasLoaded: the functions pushed, in order
    scriptsRun,              \* the other content scripts that have run
    pmRuns,                  \* the runs of the PageManager content script
    mainCalls,               \* main function of a content script -> the calls of it
    location,                \* window.location: [base, hash]
    pageUrl,                 \* PageManager.url, << >> before the first visit
    pageVisitStarted,        \* PageManager.pageVisitStarted: "undefined", "false", "true"
    listeners,               \* the listeners of onPageVisitStart, in insertion order
    pmPc,                    \* "idle", "notifying" (inside notifyListeners) or "unloaded"
    notifyAt,                \* the listener that notifyListeners calls next
    pageVisits,              \* page visit starts so far
    events,                  \* what has happened on the page, in order
    pageId,                  \* PageManager.pageId, 0 before the first visit
    pageVisitStartTime,      \* PageManager.pageVisitStartTime, 0 before the first visit
    pageHasAttention,        \* PageManager.pageHasAttention: "undefined", "false", "true"
    pageHasAudio,            \* PageManager.pageHasAudio: "undefined", "false", "true"
    eventListeners,          \* stop, attention and audio event -> its listeners, in order
    firing,                  \* the event whose notifyListeners runs, "none" otherwise
    after,                   \* what the handler does when notifyListeners has returned
    lastMessage,             \* the last message received from the background page
    endNoticeServed,         \* storage.local: "absent", "false" or "true"
    noticePc,                \* where the start-up script is: "off", "get", "create", "set"
    noticeTabs,              \* the notice tabs that have been opened
    startups                 \* what each start-up of the extension did, in order

\* The state of the statistics reducer.
reducer == <<statsKey, storageInstance, folded, stats, aggregate, rpc>>

\* The verifiers under test and the content-script side of PageManager.
votes == <<candidate, verdict>>
page == <<windowHas, pageManagerHasLoaded, scriptsRun, pmRuns, mainCalls, location,
          pageUrl, pageVisitStarted, listeners, pmPc, notifyAt, pageVisits, events,
          pageId, pageVisitStartTime, pageHasAttention, pageHasAudio, eventListeners,
          firing, after, lastMessage>>

\* The one-time notice of the study's end.
notice == <<endNoticeServed, noticePc, noticeTabs, startups>>

\* The state of the lookups.
lookups == <<object, fieldName, enterArray, found, descent, verified, reactionType>>

vars == <<clientCallbacks, registeredListener, registeredBlockingType,
          webRequestListeners, nRegs, fbPostContentSetUp, facebookTabId,
          processedRequestIds, requests, execs, reducer, lookups, votes, page, notice>>

registry == <<clientCallbacks, registeredListener, registeredBlockingType,
              webRequestListeners, nRegs, fbPostContentSetUp>>

\* What the await of the blocking callback yields: undefined, {cancel: true},
\* {cancel: false}, {redirectUrl: ...}, or an exception ("throw": the callback
\* threw or its promise was rejected).
Decisions == {"undefined", "cancelTrue", "cancelFalse", "redirect", "throw"}

\* The worker of the statistics reducer has received no message.
ReducerOff ==
    /\ statsKey = "" /\ storageInstance = << >> /\ folded = 0
    /\ stats = << >> /\ aggregate = << >> /\ rpc = "off"

PipelineInit ==
    /\ clientCallbacks = [h \in Handlers |-> [blocking |-> << >>, nonblocking |-> << >>]]
    /\ registeredListener = [h \in Handlers |-> 0]
    /\ registeredBlockingType = [h \in Handlers |-> "null"]
    /\ webRequestListeners = {}
    /\ nRegs = 0
    /\ fbPostContentSetUp = FALSE
    /\ facebookTabId = -1
    /\ processedRequestIds = {}
    /\ requests = [id \in ReqIds |-> NoRequest]
    /\ execs = << >>

\* No lookup is under way.
LookupOff ==
    /\ object = JNull /\ fieldName = "" /\ enterArray = FALSE
    /\ found = NotCalled /\ verified = NotVerified /\ reactionType = ""
    /\ descent = << >>

\* The verifiers that the vote handlers of Reddit call, the deduplication
\* aside, in the order of the handlers' lists.
VoteVerifiers ==
    {"verifyPostReq", "verifyReadableFormData", "verifyRedditPostVote",
     "verifyRedditCommentVote"}

\* No verifier is under test.
VoteOff ==
    /\ candidate = NoRequest
    /\ verdict = [name \in VoteVerifiers |-> "none"]

MaxScripts == 2     \* content scripts that use the PageManager API
Scripts == 1..MaxScripts

\* The events of PageManager besides onPageVisitStart.
OtherEvents == {"onPageVisitStop", "onPageAttentionUpdate", "onPageAudioUpdate"}

\* What a handler does once the listeners of an event have been notified, and
\* a message of the background page.
Idle == [next |-> "idle", timeStamp |-> 0]
NoMessage == [type |-> "none", value |-> "undefined"]

\* No page is open.
PageOff ==
    /\ windowHas = {} /\ pageManagerHasLoaded = << >> /\ scriptsRun = {}
    /\ pmRuns = 0 /\ mainCalls = [c \in Scripts |-> 0]
    /\ location = [base |-> "", hash |-> ""] /\ pageUrl = << >>
    /\ pageVisitStarted = "undefined" /\ listeners = << >>
    /\ pmPc = "idle" /\ notifyAt = 0 /\ pageVisits = 0 /\ events = << >>
    /\ pageId = 0 /\ pageVisitStartTime = 0
    /\ pageHasAttention = "undefined" /\ pageHasAudio = "undefined"
    /\ eventListeners = [e \in OtherEvents |-> << >>]
    /\ firing = "none" /\ after = Idle /\ lastMessage = NoMessage

\* The extension has not been started.
NoticeOff ==
    /\ endNoticeServed = "absent" /\ noticePc = "off"
    /\ noticeTabs = 0 /\ startups = << >>

Init == PipelineInit /\ ReducerOff /\ LookupOff /\ VoteOff /\ PageOff /\ NoticeOff

\* ------------------------------------------------------------- registration
\* The condition under which registerPlatformListener installs a hook.
MustInstall(listener, registeredType, blockingType) ==
    listener = 0 \/ (blockingType = "blocking" /\ registeredType # "blocking")

\* A registration that never removes the hook it replaces.
MustRemove_never(listener, registeredType) == FALSE

\* The condition under which it first removes the hook that is installed.
MustRemove(listener, registeredType) ==
    listener # 0 /\ registeredType = "nonblocking"

\* clientCallbacks[platform][eventType][blockingType].push(callback)
PushCallback(callbacks, blockingType, callback) ==
    IF blockingType = "blocking"
    THEN [callbacks EXCEPT !.blocking = Append(@, callback)]
    ELSE [callbacks EXCEPT !.nonblocking = Append(@, callback)]

\* register<Platform>ActivityTracker(callback, [eventType], blocking): one call
\* of registerPlatformListener, then the platform's content-script set-up.
registerPlatformListener(h, blockingType) ==
    LET \* the callback and the hook closure are named by the call's rank
        \* among the registrations for this handler
        callback == Len(clientCallbacks[h].blocking)
                    + Len(clientCallbacks[h].nonblocking) + 1
        install == MustInstall(registeredListener[h], registeredBlockingType[h],
                               blockingType)
        remove == install /\ MustRemove(registeredListener[h],
                                        registeredBlockingType[h])
        kept == IF remove
                THEN {l \in webRequestListeners :
                        ~(l.h = h /\ l.id = registeredListener[h])}
                ELSE webRequestListeners
    IN  /\ nRegs < MaxRegs
        /\ nRegs' = nRegs + 1
        /\ IF install
           THEN /\ registeredListener' = [registeredListener EXCEPT ![h] = callback]
                /\ registeredBlockingType' =
                       [registeredBlockingType EXCEPT ![h] = blockingType]
                /\ webRequestListeners' =
                       kept \cup {[id |-> callback, h |-> h,
                                   blockingType |-> blockingType]}
           ELSE UNCHANGED <<registeredListener, registeredBlockingType,
                            webRequestListeners>>
        /\ clientCallbacks' =
               [clientCallbacks EXCEPT ![h] = PushCallback(@, blockingType, callback)]
        /\ fbPostContentSetUp' = (fbPostContentSetUp \/ h[1] = "facebook")
        /\ UNCHANGED <<facebookTabId, processedRequestIds, requests, execs, reducer, lookups, votes, page, notice>>

\* ----------------------------------------------------- handleGenericEvent
\* One entry of an execution's log: a verifier, an extractor, a listener or a
\* completer was called, and what it yielded ("pending" until it settles).
Entry(phase, name, callback, out) ==
    [phase |-> phase, name |-> name, callback |-> callback, out |-> out]

\* A pipeline that cancels the request that it rejects.
EmptyDecision_cancels == "cancelTrue"

\* return {};
EmptyDecision == "empty"

\* A pipeline that goes on after a step that yielded nothing.
YieldsNoResult_ignored(out) == FALSE

\* if (!verified) return {};   if (!details) return {};
YieldsNoResult(out) == out = "null"

\* A pipeline that ignores the blocking callback's decision.
ReturnsBlockingResult_never(decision) == FALSE

\* blockingResult && "cancel" in blockingResult
ReturnsBlockingResult(decision) ==
    decision # "undefined" /\ decision \in {"cancelTrue", "cancelFalse"}

\* A pipeline that leaves facebookTabId as it finds it.
TabIdAfterVerifiers_notRecorded(h, req, tab) == tab

\* if (platform == "facebook") facebookTabId = requestDetails.tabId;
\* it is reached once every verifier has accepted the request.
TabIdAfterVerifiers(h, req, tab) ==
    IF h[1] = "facebook" THEN req.tabId ELSE tab

\* The calls of the nonblocking listeners, then of the completers.  The
\* listeners are called in a plain loop: when listener number t throws, the
\* loop and the function end there (t = 0: no listener throws).
ListenerCalls(h, callbacks, t) ==
    [n \in 1..(IF t = 0 THEN Len(callbacks.nonblocking) ELSE t) |->
        Entry("nonblocking", "userListener", callbacks.nonblocking[n],
              IF n = t THEN "throw" ELSE "called")]
CompleterCalls(h) ==
    [n \in 1..Len(platformHandlers(h).completers) |->
        Entry("completer", platformHandlers(h).completers[n], 0, "called")]

\* The end of handleGenericEvent: every nonblocking listener, every
\* completer, and the function returns undefined.
Deliver(e, callbacks, t) ==
    IF t = 0
    THEN [e EXCEPT !.pc = "done", !.result = "undefined",
                   !.log = @ \o ListenerCalls(e.h, callbacks, t)
                             \o CompleterCalls(e.h)]
    ELSE [e EXCEPT !.pc = "done", !.result = "rejected",
                   !.log = @ \o ListenerCalls(e.h, callbacks, t)]

\* Ends the execution: the promise is rejected by an exception ("rejected")
\* or fulfilled with result.
Finish(e, result) == [e EXCEPT !.pc = "done", !.result = result]

\* Calls verifier number j; the execution then waits at the await.
CallVerifierAt(e, j, req, processed) ==
    LET name == platformHandlers(e.h).verifiers[j]
        r == CallVerifier(name, req, e.rid, processed)
        called == [e EXCEPT !.pc = "verifier", !.i = j, !.out = r.out,
                            !.log = Append(@, Entry("verifier", name, 0, r.out))]
    IN  [exec |-> IF r.out = "throw" THEN Finish(called, "rejected") ELSE called,
         processed |-> r.processed]

\* A pipeline that calls the nonblocking listeners before the blocking callback.
AfterExtractors_listenersFirst(e, callbacks, t) ==
    IF e.blockingType = "blocking"
    THEN [e EXCEPT !.pc = "blocking", !.out = "pending",
                   !.log = (@ \o ListenerCalls(e.h, callbacks, 0))
                           \o <<Entry("blocking", "clientCallback",
                                      callbacks.blocking[1], "pending")>>]
    ELSE Deliver(e, callbacks, t)

\* Calls the blocking callback when the hook is blocking, else goes on to the
\* nonblocking listeners.
AfterExtractors(e, callbacks, t) ==
    IF e.blockingType = "blocking"
    THEN [e EXCEPT !.pc = "blocking", !.out = "pending",
                   !.log = Append(@, Entry("blocking", "clientCallback",
                                           callbacks.blocking[1], "pending"))]
    ELSE Deliver(e, callbacks, t)

\* browser.tabs.sendMessage(facebookTabId, {"recentReshare": true}): the tabs
\* that the call sends the message to, tab being facebookTabId at the call
getReshareInfo(tab) == <<tab>>

\* The source lookups that the call of an extractor sends: extractFacebookReshare
\* calls getReshareInfo in the section that it is called in, for a request to
\* the graphql endpoint whose audience it could derive.
LookupsSentBy(name, req, tab) ==
    IF /\ name = "extractFacebookReshare"
       /\ req.url = FB_GRAPHQL
       /\ checkFacebookPostAudience(req) # "throw"
    THEN getReshareInfo(tab)
    ELSE << >>

\* Calls extractor number j; tab is facebookTabId at the call.
CallExtractorAt(e, j, req, tab) ==
    LET name == platformHandlers(e.h).extractors[j]
        out == CallExtractor(name, req)
        called == [e EXCEPT !.pc = "extractor", !.i = j, !.out = out,
                            !.log = Append(@, Entry("extractor", name, 0, out)),
                            !.sentTo = @ \o LookupsSentBy(name, req, tab)]
    IN  IF out = "throw" THEN Finish(called, "rejected") ELSE called

\* A pipeline that records the request's tab before it looks at the
\* verifier's result.
ResumeAfterVerifier_tabFirst(e, req, processed, tab) ==
    IF YieldsNoResult(e.out)
    THEN [exec |-> Finish(e, EmptyDecision), processed |-> processed,
          tab |-> TabIdAfterVerifiers(e.h, req, tab)]
    ELSE IF e.i < Len(platformHandlers(e.h).verifiers)
    THEN LET c == CallVerifierAt(e, e.i + 1, req, processed)
         IN  [exec |-> c.exec, processed |-> c.processed,
              tab |-> TabIdAfterVerifiers(e.h, req, tab)]
    ELSE [exec |-> CallExtractorAt(e, 1, req, TabIdAfterVerifiers(e.h, req, tab)),
          processed |-> processed,
          tab |-> TabIdAfterVerifiers(e.h, req, tab)]

\* The synchronous section that follows the await of verifier e.i.
ResumeAfterVerifier(e, req, processed, tab) ==
    IF YieldsNoResult(e.out)
    THEN [exec |-> Finish(e, EmptyDecision), processed |-> processed, tab |-> tab]
    ELSE IF e.i < Len(platformHandlers(e.h).verifiers)
    THEN LET c == CallVerifierAt(e, e.i + 1, req, processed)
         IN  [exec |-> c.exec, processed |-> c.processed, tab |-> tab]
    ELSE [exec |-> CallExtractorAt(e, 1, req, TabIdAfterVerifiers(e.h, req, tab)),
          processed |-> processed,
          tab |-> TabIdAfterVerifiers(e.h, req, tab)]

\* The synchronous section that follows the await of extractor e.i.
ResumeAfterExtractor(e, req, callbacks, t, tab) ==
    IF e.out = "throw" THEN Finish(e, "rejected")
    ELSE IF YieldsNoResult(e.out) THEN Finish(e, EmptyDecision)
    ELSE IF e.i < Len(platformHandlers(e.h).extractors)
    THEN CallExtractorAt(e, e.i + 1, req, tab)
    ELSE AfterExtractors(e, callbacks, t)

\* The synchronous section that follows the await of the blocking callback.
ResumeAfterBlocking(e, decision, callbacks, t) ==
    LET decided == [e EXCEPT !.out = decision,
                             !.log[Len(e.log)].out = decision]
    IN  IF decision = "throw" THEN Finish(decided, "rejected")
        ELSE IF ReturnsBlockingResult(decision)
        THEN Finish(decided, decision)
        ELSE Deliver(decided, callbacks, t)

\* The browser calls the hooks whose URL patterns match the request, one
\* after the other; each call runs handleGenericEvent up to its first await,
\* that is through the call of the first verifier.
MatchingHooks(url) ==
    {l \in webRequestListeners : url \in platformHandlers(l.h).urls}

NewExec(l, rid) ==
    [rid |-> rid, h |-> l.h, blockingType |-> l.blockingType, pc |-> "verifier",
     i |-> 0, out |-> "ok", result |-> "pending", log |-> << >>,
     registered |-> clientCallbacks[l.h].nonblocking,
     answer |-> "", postId |-> "", sentTo |-> << >>]

RECURSIVE CallHooks(_, _, _, _)
CallHooks(hooks, rid, req, st) ==
    IF hooks = {} THEN st
    ELSE LET l == CHOOSE x \in hooks : \A y \in hooks : x.id <= y.id
             c == CallVerifierAt(NewExec(l, rid), 1, req, st.processed)
         IN  CallHooks(hooks \ {l}, rid, req,
                       [execs |-> Append(st.execs, c.exec),
                        processed |-> c.processed])

onBeforeRequest(rid, req) ==
    /\ requests[rid] \in {NoRequest, req}      \* a redirect re-issues the request
    /\ \A other \in ReqIds : other < rid => requests[other] # NoRequest
    /\ MatchingHooks(req.url) # {}
    /\ Len(execs) + Cardinality(MatchingHooks(req.url)) <= MaxExecs
    /\ requests' = [requests EXCEPT ![rid] = req]
    /\ LET st == CallHooks(MatchingHooks(req.url), rid, req,
                           [execs |-> execs, processed |-> processedRequestIds])
       IN  /\ execs' = st.execs
           /\ processedRequestIds' = st.processed
    /\ UNCHANGED <<registry, facebookTabId, reducer, lookups, votes, page, notice>>

\* A host in which an uncaught rejection ends every pipeline in flight.
Continue_rejectionEndsAll(es, k, e) ==
    IF e.result = "rejected"
    THEN [j \in 1..Len(es) |->
            IF j = k THEN e
            ELSE IF es[j].pc # "done" THEN Finish(es[j], "rejected")
            ELSE es[j]]
    ELSE [es EXCEPT ![k] = e]

\* Each call of the async function handleGenericEvent has its own frame and
\* its own promise: the continuation of call k leaves the other calls as
\* they are, also when it ends with an exception.
Continue(es, k, e) == [es EXCEPT ![k] = e]

\* An execution resumes after the await of a verifier.
resumeVerifier(k) ==
    /\ execs[k].pc = "verifier"
    /\ LET r == ResumeAfterVerifier(execs[k], requests[execs[k].rid],
                                    processedRequestIds, facebookTabId)
       IN  /\ execs' = Continue(execs, k, r.exec)
           /\ processedRequestIds' = r.processed
           /\ facebookTabId' = r.tab
    /\ UNCHANGED <<registry, requests, reducer, lookups, votes, page, notice>>

\* The content script or the network answers a pending extractor.
settleExtractor(k, answer) ==
    /\ execs[k].pc = "extractor"
    /\ execs[k].out = "pending"
    /\ LET e == execs[k]
           name == platformHandlers(e.h).extractors[e.i]
           out == SettleExtractor(name, requests[e.rid], answer)
       IN  execs' = [execs EXCEPT ![k].out = out, ![k].log[Len(e.log)].out = out,
                                  ![k].answer = FetchAnswerOf(name, answer),
                                  ![k].postId = IF out = "details"
                                                THEN PostIdOf(name, answer)
                                                ELSE ""]
    /\ UNCHANGED <<registry, facebookTabId, processedRequestIds, requests, reducer, lookups, votes, page, notice>>

\* An execution resumes after the await of an extractor that has settled.
resumeExtractor(k, t) ==
    /\ execs[k].pc = "extractor"
    /\ Settled(execs[k].out)
    /\ execs' = Continue(execs, k,
                         ResumeAfterExtractor(execs[k], requests[execs[k].rid],
                                              clientCallbacks[execs[k].h], t,
                                              facebookTabId))
    /\ UNCHANGED <<registry, facebookTabId, processedRequestIds, requests, reducer, lookups, votes, page, notice>>

\* The blocking callback settles with a decision and the execution resumes.
resumeBlocking(k, decision, t) ==
    /\ execs[k].pc = "blocking"
    /\ execs' = Continue(execs, k,
                         ResumeAfterBlocking(execs[k], decision,
                                             clientCallbacks[execs[k].h], t))
    /\ UNCHANGED <<registry, facebookTabId, processedRequestIds, requests, reducer, lookups, votes, page, notice>>

\* Which of the nonblocking listeners throws when it is called: none (0) or
\* the one at a position of the callback list.
ThrowingListener(h) == 0..Len(clientCallbacks[h].nonblocking)

Next ==
    \/ \E h \in TrackedHandlers, blockingType \in {"blocking", "nonblocking"} :
          registerPlatformListener(h, blockingType)
    \/ \E rid \in ReqIds, req \in RequestSamples : onBeforeRequest(rid, req)
    \/ \E k \in 1..Len(execs) : resumeVerifier(k)
    \/ \E k \in 1..Len(execs), answer \in FetchAnswers : settleExtractor(k, answer)
    \/ \E k \in 1..Len(execs) :
          \E t \in ThrowingListener(execs[k].h) : resumeExtractor(k, t)
    \/ \E k \in 1..Len(execs), decision \in Decisions :
          \E t \in ThrowingListener(execs[k].h) : resumeBlocking(k, decision, t)

Spec == Init /\ [][Next]_vars

\* The continuations of call k of handleGenericEvent: the event loop runs a
\* continuation once the promise it awaits has settled, the network answers
\* every fetch in some way, and the blocking callback settles.
PipelineStep(k) ==
    /\ k \in 1..Len(execs)
    /\ \/ resumeVerifier(k)
       \/ \E answer \in FetchAnswers : settleExtractor(k, answer)
       \/ \E t \in ThrowingListener(execs[k].h) : resumeExtractor(k, t)
       \/ \E decision \in Decisions :
             \E t \in ThrowingListener(execs[k].h) : resumeBlocking(k, decision, t)

\* The study registers Reddit vote trackers only, and the browser issues
\* requests to the Reddit vote endpoint.
RedditVoteHandlers == {h \in TrackedHandlers : h[1] = "reddit"}
RedditVoteSamples == {req \in RequestSamples : req.url = REDDIT_VOTE}

LiveNext ==
    \/ \E h \in RedditVoteHandlers, blockingType \in {"blocking", "nonblocking"} :
          registerPlatformListener(h, blockingType)
    \/ \E rid \in ReqIds, req \in RedditVoteSamples : onBeforeRequest(rid, req)
    \/ \E k \in 1..Len(execs) : PipelineStep(k)

LiveSpec ==
    /\ Init /\ [][LiveNext]_vars
    /\ \A k \in 1..MaxExecs : WF_vars(PipelineStep(k))

\* ------------------------------------------------- computeStats, stepwise
pipeline == <<registry, facebookTabId, processedRequestIds, requests, execs>>

\* onmessage: the worker is given a storage object under a key of
\* functionMapping; computeStats starts with setup().
ReducerInit ==
    /\ PipelineInit /\ LookupOff /\ VoteOff /\ PageOff /\ NoticeOff
    /\ statsKey \in functionMapping
    /\ storageInstance \in Logs(statsKey)
    /\ folded = 0
    /\ stats = Setup(statsKey)
    /\ aggregate = << >>
    /\ rpc = "fold"

\* One call of this.compute(entry, stats) by the forEach.
compute ==
    /\ rpc = "fold"
    /\ folded < Len(storageInstance)
    /\ LET entry == storageInstance[folded + 1]
       IN  /\ stats' = Compute(statsKey, entry, stats)
           /\ storageInstance' = [storageInstance EXCEPT ![folded + 1] =
                                      Record(statsKey, entry)]
           /\ IF Throws(statsKey, entry, stats)
              THEN rpc' = "thrown" /\ folded' = folded
              ELSE rpc' = rpc /\ folded' = folded + 1
    /\ UNCHANGED <<pipeline, lookups, votes, page, notice, statsKey, aggregate>>

\* return this.gather(stats)
gather ==
    /\ rpc = "fold"
    /\ folded = Len(storageInstance)
    /\ aggregate' = Gather(statsKey, stats)
    /\ rpc' = "done"
    /\ UNCHANGED <<pipeline, lookups, votes, page, notice, statsKey, storageInstance, folded, stats>>

ReducerNext == compute \/ gather

ReducerSpec == ReducerInit /\ [][ReducerNext]_vars

\* ------------------------------------------------------------ vocabulary
Execs == 1..Len(execs)
Done(e) == e.pc = "done"
Calls(e, phase) == {n \in 1..Len(e.log) : e.log[n].phase = phase}
\* The event of the execution reached a listener.
Delivered(e) == Calls(e, "blocking") \cup Calls(e, "nonblocking") # {}
ExecsOf(h, rid) == {k \in Execs : execs[k].h = h /\ execs[k].rid = rid}
\* The execution ended at a verifier that yielded nothing.
RejectedByVerifier(e) ==
    /\ Done(e) /\ e.log # << >>
    /\ e.log[Len(e.log)].phase = "verifier" /\ e.log[Len(e.log)].out = "null"
\* The request passes the handler's own verifiers and its extractor yields an
\* event: it is a valid instance of the handler's event type.
ValidFor(req, h) ==
    /\ req.url \in platformHandlers(h).urls
    /\ \A n \in 1..Len(platformHandlers(h).verifiers) :
          platformHandlers(h).verifiers[n] # "verifyNewRequest"
             => CallVerifier(platformHandlers(h).verifiers[n], req, 0, {}).out = "ok"
    /\ \A n \in 1..Len(platformHandlers(h).extractors) :
          LET name == platformHandlers(h).extractors[n]
          IN  \/ CallExtractor(name, req) = "details"
              \/ CallExtractor(name, req) = "pending"
                 /\ \E a \in FetchAnswers : SettleExtractor(name, req, a) = "details"
HooksOf(h) == {l \in webRequestListeners : l.h = h}
PhaseRank(phase) ==
    CASE phase = "verifier" -> 1 [] phase = "extractor" -> 2
      [] phase = "blocking" -> 3 [] phase = "nonblocking" -> 4
      [] phase = "completer" -> 5

\* C1: of the executions of one handler that carry one request id at most one
\* delivers an event to listeners; when the request is valid, only that
\* handler's hook saw it, and it was fed at least twice, exactly one of the
\* finished executions delivered.
C1_AtMostOneDeliveryPerRequestId ==
    \A h \in Handlers, rid \in ReqIds :
        LET mine == ExecsOf(h, rid)
            delivering == {k \in mine : Delivered(execs[k])}
        IN  /\ Cardinality(delivering) <= 1
            /\ ( /\ Cardinality(mine) >= 2
                 /\ \A k \in mine : Done(execs[k])
                 /\ \A k \in Execs : execs[k].rid = rid => execs[k].h = h
                 /\ ValidFor(requests[rid], h) )
               => Cardinality(delivering) = 1

\* C1 witness: a valid request was fed twice to one handler; one execution
\* delivered it and the other was stopped by the deduplication verifier.
C1_Witness ==
    \E h \in Handlers, rid \in ReqIds :
        /\ ValidFor(requests[rid], h)
        /\ \E k1, k2 \in ExecsOf(h, rid) :
              /\ k1 # k2 /\ Done(execs[k1]) /\ Delivered(execs[k1])
              /\ RejectedByVerifier(execs[k2])
              /\ execs[k2].log[Len(execs[k2].log)].name = "verifyNewRequest"

\* C2: a request on a URL pattern that several handlers share, valid for
\* exactly one of them, is delivered exactly once to that handler's
\* listeners once every execution that carries its id has finished.
C2_SharedPatternDeliveredOnce ==
    \A h \in Handlers, rid \in ReqIds :
        LET req == requests[rid]
            sharing == {g \in Handlers : req.url \in platformHandlers(g).urls}
        IN  ( /\ req # NoRequest
              /\ ValidFor(req, h)
              /\ \A g \in sharing \ {h} : ~ValidFor(req, g)
              /\ ExecsOf(h, rid) # {}
              /\ \A k \in Execs : execs[k].rid = rid => Done(execs[k]) )
            => Cardinality({k \in ExecsOf(h, rid) : Delivered(execs[k])}) = 1

\* C3: a verifier or extractor that yields no result is the last step of its
\* execution, which then returns the empty decision: no later verifier,
\* extractor, listener or completer is called.
C3_NoResultEndsPipeline ==
    \A k \in Execs :
        \A n \in 1..Len(execs[k].log) :
            ( /\ execs[k].log[n].phase \in {"verifier", "extractor"}
              /\ execs[k].log[n].out = "null" )
            => /\ n = Len(execs[k].log)
               /\ Done(execs[k]) => execs[k].result = "empty"

\* C3 witness: one execution ended at a verifier that yielded nothing and
\* another at an extractor that yielded nothing.
C3_Witness ==
    \E k1, k2 \in Execs :
        /\ RejectedByVerifier(execs[k1]) /\ execs[k1].result = "empty"
        /\ Done(execs[k2]) /\ execs[k2].result = "empty"
        /\ execs[k2].log[Len(execs[k2].log)].phase = "extractor"
        /\ execs[k2].log[Len(execs[k2].log)].out = "null"

\* C4: the steps of an execution are the handler's verifiers in registration
\* order, then its extractors in registration order, then the blocking
\* callback, then the nonblocking listeners, then the completers, and a step
\* is called only when the step before it has finished.
C4_StepsInPhaseOrder ==
    \A k \in Execs :
        LET e == execs[k]
            verifiers == platformHandlers(e.h).verifiers
            extractors == platformHandlers(e.h).extractors
            nv == Len(verifiers)
            nx == Len(extractors)
        IN  /\ \A n \in 1..(Len(e.log) - 1) :
                  /\ PhaseRank(e.log[n].phase) <= PhaseRank(e.log[n + 1].phase)
                  /\ e.log[n].out # "pending"
            /\ \A n \in Calls(e, "verifier") :
                  n <= nv /\ e.log[n].name = verifiers[n]
            /\ \A n \in Calls(e, "extractor") :
                  n > nv /\ n <= nv + nx /\ e.log[n].name = extractors[n - nv]
            /\ \A n \in Calls(e, "blocking") : n = nv + nx + 1
            /\ \A n \in Calls(e, "nonblocking") \cup Calls(e, "completer") :
                  n > nv + nx

\* C4 witness: a finished execution went through every verifier, an
\* asynchronous extractor, the blocking callback and a nonblocking listener.
C4_Witness ==
    \E k \in Execs :
        /\ Done(execs[k])
        /\ Cardinality(Calls(execs[k], "verifier"))
              = Len(platformHandlers(execs[k].h).verifiers)
        /\ \E n \in Calls(execs[k], "extractor") :
              execs[k].log[n].name \in AsyncExtractors
        /\ Calls(execs[k], "blocking") # {}
        /\ Calls(execs[k], "nonblocking") # {}

\* C5: when the blocking callback answers {cancel: true} the execution
\* returns that decision and calls no nonblocking listener and no completer.
C5_CancelStopsDelivery ==
    \A k \in Execs :
        (\E n \in Calls(execs[k], "blocking") : execs[k].log[n].out = "cancelTrue")
        => /\ Done(execs[k]) /\ execs[k].result = "cancelTrue"
           /\ Calls(execs[k], "nonblocking") = {}
           /\ Calls(execs[k], "completer") = {}

\* C5 witness: the blocking callback cancelled a request for which a
\* nonblocking listener was registered as well.
C5_Witness ==
    \E k \in Execs :
        /\ \E n \in Calls(execs[k], "blocking") : execs[k].log[n].out = "cancelTrue"
        /\ clientCallbacks[execs[k].h].nonblocking # << >>

\* C6: when the blocking callback's decision is anything but {cancel: true},
\* every nonblocking listener registered when the request arrived has been
\* called by the time the execution finishes.
C6_NonCancellingDecisionDelivers ==
    \A k \in Execs :
        ( /\ Done(execs[k])
          /\ \E n \in Calls(execs[k], "blocking") :
                execs[k].log[n].out \in Decisions \ {"cancelTrue", "throw"}
          /\ execs[k].result # "rejected" )
        => \A c \in 1..Len(execs[k].registered) :
              \E n \in Calls(execs[k], "nonblocking") :
                  execs[k].log[n].callback = execs[k].registered[c]

\* C7: every callback registered as nonblocking before a request arrived is
\* called exactly once when the request yields an event that is not cancelled.
C7_EachNonblockingCalledOnce ==
    \A k \in Execs :
        ( /\ Done(execs[k])
          /\ execs[k].result # "rejected"
          /\ \A n \in 1..Len(execs[k].log) : execs[k].log[n].out # "null"
          /\ \A n \in Calls(execs[k], "blocking") :
                execs[k].log[n].out # "cancelTrue" )
        => \A c \in 1..Len(execs[k].registered) :
              Cardinality({n \in Calls(execs[k], "nonblocking") :
                             execs[k].log[n].callback = execs[k].registered[c]}) = 1

\* C8: at most one blocking callback is registered per (platform, eventType).
C8_AtMostOneBlockingCallback ==
    \A h \in Handlers : Len(clientCallbacks[h].blocking) <= 1

\* C9: a handler has exactly one hook installed once it has a callback and
\* none before; the hook is blocking iff a blocking callback is registered;
\* and no step replaces a blocking hook by a nonblocking one.
C9_HookState ==
    \A h \in Handlers :
        LET any == clientCallbacks[h].blocking # << >>
                   \/ clientCallbacks[h].nonblocking # << >>
        IN  /\ Cardinality(HooksOf(h)) = (IF any THEN 1 ELSE 0)
            /\ \A l \in HooksOf(h) :
                  /\ l.id = registeredListener[h]
                  /\ l.blockingType = registeredBlockingType[h]
                  /\ (l.blockingType = "blocking")
                        <=> (clientCallbacks[h].blocking # << >>)
C9_NoDowngrade ==
    \A h \in Handlers :
        (\E l \in HooksOf(h) : l.blockingType = "blocking")
        => (HooksOf(h)' # {} /\ \A l \in HooksOf(h)' : l.blockingType = "blocking")
C9_OneHookNeverDowngraded == [] C9_HookState /\ [][C9_NoDowngrade]_vars

\* C9 witness: a blocking registration replaced the nonblocking hook of a
\* handler that keeps its nonblocking callback.
C9_Witness ==
    \E h \in Handlers :
        /\ clientCallbacks[h].nonblocking # << >>
        /\ clientCallbacks[h].blocking # << >>
        /\ clientCallbacks[h].blocking[1] > clientCallbacks[h].nonblocking[1]
        /\ HooksOf(h) = {[id |-> clientCallbacks[h].blocking[1], h |-> h,
                           blockingType |-> "blocking"]}

\* C10: an execution that a verifier rejected delivered nothing and returned
\* the empty decision, and no step that calls a verifier or ends at one
\* changes the Facebook tab id, the callback tables or the hooks.
C10_RejectedDeliversNothing ==
    \A k \in Execs :
        RejectedByVerifier(execs[k])
        => ~Delivered(execs[k]) /\ execs[k].result = "empty"
C10_VerifierStepFrame ==
    \A k \in 1..Len(execs') :
        ( /\ k > Len(execs) \/ execs'[k] # execs[k]
          /\ execs'[k].log # << >>
          /\ execs'[k].log[Len(execs'[k].log)].phase = "verifier" )
        => /\ facebookTabId' = facebookTabId
           /\ clientCallbacks' = clientCallbacks
           /\ webRequestListeners' = webRequestListeners
           /\ registeredListener' = registeredListener
           /\ registeredBlockingType' = registeredBlockingType
C10_VerifierRejectionFrame ==
    [] C10_RejectedDeliversNothing /\ [][C10_VerifierStepFrame]_vars

\* C10 witness: a Facebook execution consumed its request id and was then
\* rejected by its own verifier, and the tab id is not the request's.
C10_Witness ==
    \E k \in Execs :
        /\ execs[k].h[1] = "facebook"
        /\ RejectedByVerifier(execs[k])
        /\ execs[k].log[Len(execs[k].log)].name # "verifyNewRequest"
        /\ execs[k].rid \in processedRequestIds
        /\ \A j \in Execs : execs[j].rid = execs[k].rid => j = k
        /\ facebookTabId # requests[execs[k].rid].tabId

\* The request lacks a field that a verifier or extractor of the handler
\* reads: the friendly name or the privacy state of a Facebook post, the
\* document URL of a Twitter request that comes from no tab, the title of a
\* Reddit post.
LacksRequiredField(req, h) ==
    \/ h = <<"facebook", "post">> /\ (req.fbName = "" \/ req.baseState = "")
    \/ h[1] = "twitter" /\ req.tabId < 0 /\ req.documentUrl = ""
    \/ h = <<"reddit", "post">> /\ "title" \notin req.fields

\* C11: an execution whose request lacks a required field ends with the empty
\* decision and no listener called, never with an exception (a rejected
\* promise).
C11_MissingFieldSilentlyRejected ==
    \A k \in Execs :
        (Done(execs[k]) /\ LacksRequiredField(requests[execs[k].rid], execs[k].h))
        => /\ ~Delivered(execs[k])
           /\ execs[k].result = "empty"

\* C12: when a listener of a Reddit commentVote execution has been called,
\* the hydration fetch had answered and the extractor's promise was resolved
\* before; the event carries the parent post id of that answer.
C12_HydratedBeforeListeners ==
    \A k \in Execs :
        (execs[k].h = <<"reddit", "commentVote">> /\ Delivered(execs[k]))
        => /\ \E n \in Calls(execs[k], "extractor") :
                 /\ execs[k].log[n].name = "extractRedditCommentVote"
                 /\ execs[k].log[n].out = "details"
           /\ execs[k].answer \in FetchAnswers
           /\ execs[k].postId = LinkId(execs[k].answer)
           /\ execs[k].postId # ""

\* C12 witness: a commentVote event went to the blocking callback and to a
\* nonblocking listener after the fetch had answered.
C12_Witness ==
    \E k \in Execs :
        /\ execs[k].h = <<"reddit", "commentVote">>
        /\ Done(execs[k])
        /\ Calls(execs[k], "blocking") # {}
        /\ Calls(execs[k], "nonblocking") # {}
        /\ execs[k].postId = "t3_parent"

\* The execution failed: it ended with an exception, or its extractor's
\* promise will never settle.
Failed(e) == e.result = "rejected" \/ e.out = "never"

\* C13: whatever happens in the other executions, a finished execution of a
\* valid request that no other execution carries, and in which no step of its
\* own threw, has delivered its event; when it returned undefined every
\* listener registered on arrival was called.  And a step of one execution
\* leaves every other execution, the callback tables and the hooks as they
\* were, and records in the Deduplication Set no id but its own.
C13_ValidRequestDelivered ==
    \A k \in Execs :
        ( /\ Done(execs[k])
          /\ ValidFor(requests[execs[k].rid], execs[k].h)
          /\ \A j \in Execs \ {k} : execs[j].rid # execs[k].rid
          /\ \A n \in 1..Len(execs[k].log) : execs[k].log[n].out # "throw" )
        => /\ Delivered(execs[k])
           /\ execs[k].result # "rejected"
           /\ execs[k].result = "undefined"
                 => \A c \in 1..Len(execs[k].registered) :
                       \E n \in Calls(execs[k], "nonblocking") :
                           execs[k].log[n].callback = execs[k].registered[c]
C13_OtherPipelinesUntouched ==
    \A k \in Execs :
        execs'[k] # execs[k]
        => /\ \A j \in Execs \ {k} : execs'[j] = execs[j]
           /\ processedRequestIds' \subseteq processedRequestIds \cup {execs[k].rid}
           /\ clientCallbacks' = clientCallbacks
           /\ webRequestListeners' = webRequestListeners
C13_FailureIsolation ==
    [] C13_ValidRequestDelivered /\ [][C13_OtherPipelinesUntouched]_vars

\* C13 witness: one execution failed and an execution of another, valid
\* request, started before the failure or after it, delivered its event.
C13_Witness ==
    \E k1, k2 \in Execs :
        /\ execs[k1].rid # execs[k2].rid
        /\ Failed(execs[k1])
        /\ Done(execs[k2]) /\ ValidFor(requests[execs[k2].rid], execs[k2].h)
        /\ Delivered(execs[k2]) /\ execs[k2].result = "undefined"

\* C14: every execution eventually completes and returns its decision, given
\* that every await whose promise settles is resumed, that every fetch is
\* answered (with a listing, with a body of another shape, or with a network
\* error) and that the blocking callback settles.
C14_EveryExecutionCompletes ==
    \A k \in 1..MaxExecs :
        (k \in Execs) ~> (k \in Execs /\ Done(execs[k]))

\* ---------------------------------------------- vocabulary of the reducer
Range(seq) == {seq[n] : n \in 1..Len(seq)}
\* The storage object with its entries in another iteration order.
Permuted(log) ==
    { [n \in 1..Len(log) |-> log[p[n]]] :
        p \in {q \in [1..Len(log) -> 1..Len(log)] :
                 \A a, b \in 1..Len(log) : q[a] = q[b] => a = b} }
Finished == rpc \in {"done", "thrown"}
\* A result without the order of its arrays and of its entries.
Unordered(key, result) ==
    CASE key = PageNavigation ->
           << IF Defined(result, "numUntrackedVisits")
              THEN {Get(result, "numUntrackedVisits")} ELSE {},
              { <<Get(d, "domain"), Range(Get(d, "trackedVisitsByReferrer"))>> :
                  d \in Range(Get(result, "trackedVisitsByDomain")) } >>
      [] key = LinkExposure ->
           << Range(Get(result, "untrackedLinkExposures")),
              Range(Get(result, "linkExposures")) >>
      [] key = SocialMediaLinkSharing ->
           << {},
              { <<Get(p, "platform"), Get(p, "numUntrackedShares"),
                  Range(Get(p, "trackedShares"))>> :
                  p \in Range(Get(result, "linkSharesByPlatform")) } >>

\* C15: when computeStats has ended for a storage object, it ends the same
\* way for every other iteration order of the same entries: it throws for all
\* or for none, and the results have the same totals and the same group
\* entries (the order of the arrays aside).
C15_SameResultForEveryOrder ==
    Finished =>
        \A log \in Permuted(storageInstance) :
            LET other == computeStats(statsKey, log)
            IN  /\ other.thrown = (rpc = "thrown")
                /\ ~other.thrown =>
                      Unordered(statsKey, other.result) = Unordered(statsKey, aggregate)

\* The entries of the storage object that have the given type.
RecordsOfType(type) ==
    {n \in 1..Len(storageInstance) :
        /\ Defined(storageInstance[n], "type")
        /\ Get(storageInstance[n], "type") = type}
RECURSIVE SumOver(_, _)
SumOver(f(_), set) ==
    IF set = {} THEN 0
    ELSE LET x == CHOOSE y \in set : TRUE
         IN  f(x) + SumOver(f, set \ {x})
\* (visited domain, referrer domain, day of week, time bucket, classification)
PageVisitGroup(navObj) ==
    << getDomain(Get(navObj, "url")), getDomain(Get(navObj, "referrer")),
       getDay(Get(navObj, "visitStart")), timeOfDay(Get(navObj, "visitStart")),
       Get(navObj, "classification") >>
\* The entries of the page-navigation result: (place in trackedVisitsByDomain,
\* place in that domain's trackedVisitsByReferrer).
PageVisitEntries ==
    LET domains == Get(aggregate, "trackedVisitsByDomain")
    IN  { place \in (1..Len(domains)) \X (1..MaxLog) :
            place[2] <= Len(Get(domains[place[1]], "trackedVisitsByReferrer")) }
PageVisitEntryAt(place) ==
    Get(Get(aggregate, "trackedVisitsByDomain")[place[1]],
        "trackedVisitsByReferrer")[place[2]]
PageVisitEntryGroup(place) ==
    << Get(Get(aggregate, "trackedVisitsByDomain")[place[1]], "domain"),
       Get(PageVisitEntryAt(place), "referrerDomain"),
       Get(PageVisitEntryAt(place), "dayOfWeek"),
       Get(PageVisitEntryAt(place), "timeOfDay"),
       Get(PageVisitEntryAt(place), "pageCategory") >>

\* C16: the page-navigation result has exactly one entry per group that
\* occurs among the pageVisit records, no other entry, and the entry's
\* numVisits, totalAttention, laterSharedCount and prevExposedCount are the
\* number of the group's records, the sum of their attentionDuration, and the
\* numbers of them with laterShared and with prevExposed set.
C16_OneEntryPerGroupWithCounts ==
    (rpc = "done" /\ statsKey = PageNavigation) =>
        LET visits == RecordsOfType("pageVisit")
            InGroup(g) == {n \in visits : PageVisitGroup(storageInstance[n]) = g}
            Attention(n) == Get(storageInstance[n], "attentionDuration")
            Shared(n) == Truthy01(storageInstance[n], "laterShared")
            Exposed(n) == Truthy01(storageInstance[n], "prevExposed")
        IN  /\ \A n \in visits :
                  \E place \in PageVisitEntries :
                      PageVisitEntryGroup(place) = PageVisitGroup(storageInstance[n])
            /\ \A p1, p2 \in PageVisitEntries :
                  PageVisitEntryGroup(p1) = PageVisitEntryGroup(p2) => p1 = p2
            /\ \A place \in PageVisitEntries :
                  LET mine == InGroup(PageVisitEntryGroup(place))
                      entry == PageVisitEntryAt(place)
                  IN  /\ mine # {}
                      /\ Get(entry, "numVisits") = Cardinality(mine)
                      /\ Get(entry, "totalAttention") = SumOver(Attention, mine)
                      /\ Get(entry, "laterSharedCount") = SumOver(Shared, mine)
                      /\ Get(entry, "prevExposedCount") = SumOver(Exposed, mine)

\* C16 witness: two visits of one group and a visit that differs from them in
\* the visited domain only gave two entries, with 2 visits and with 1.
C16_Witness ==
    /\ rpc = "done" /\ statsKey = PageNavigation
    /\ \E p1, p2 \in PageVisitEntries :
          /\ p1[1] # p2[1]
          /\ Get(PageVisitEntryAt(p1), "numVisits") = 2
          /\ Get(PageVisitEntryAt(p1), "totalAttention") = 5
          /\ Get(PageVisitEntryAt(p2), "numVisits") = 1
          /\ \A n \in 2..5 : PageVisitEntryGroup(p1)[n] = PageVisitEntryGroup(p2)[n]

\* C17: computeStats of a link-sharing storage object completes, and its
\* linkSharesByPlatform has one entry for each of facebook, twitter and
\* reddit, whose numUntrackedShares is the sum of the platform's field over
\* the numUntrackedShares records (0 without such a record).
C17_ThreePlatformSkeleton ==
    (Finished /\ statsKey = SocialMediaLinkSharing) =>
        /\ rpc = "done"
        /\ \A platform \in {"facebook", "twitter", "reddit"} :
              LET platforms == Get(aggregate, "linkSharesByPlatform")
                  mine == {n \in 1..Len(platforms) :
                             Get(platforms[n], "platform") = platform}
                  Field(n) == Get(storageInstance[n], platform)
              IN  /\ Cardinality(mine) = 1
                  /\ \A n \in mine :
                        Get(platforms[n], "numUntrackedShares")
                           = SumOver(Field, RecordsOfType("numUntrackedShares"))

\* C18: the result of computeStats for page navigation, link exposure and
\* link sharing has the tracked detail field and the untracked total field,
\* whatever records the storage object holds.
C18_TrackedAndUntrackedPresent ==
    rpc = "done" =>
        CASE statsKey = PageNavigation ->
               /\ Has(aggregate, "trackedVisitsByDomain")
               /\ Defined(aggregate, "numUntrackedVisits")
          [] statsKey = LinkExposure ->
               /\ Has(aggregate, "linkExposures")
               /\ Has(aggregate, "untrackedLinkExposures")
          [] statsKey = SocialMediaLinkSharing ->
               /\ Has(aggregate, "linkSharesByPlatform")
               /\ \A p \in Range(Get(aggregate, "linkSharesByPlatform")) :
                     Has(p, "trackedShares") /\ Defined(p, "numUntrackedShares")

\* (source domain, destination domain, day of week, visibility threshold)
LinkExposureGroup(exposureObj) ==
    << getDomain(Get(Get(exposureObj, "metadata"), "location")),
       getDomain(Get(exposureObj, "url")),
       getDay(Get(exposureObj, "firstSeen")), Get(exposureObj, "visThreshold") >>

\* C19: every group of linkExposure records has its entry in the result, and
\* an entry's numExposures is the number of the group's records, its
\* laterVisitedCount the number of them with laterVisited set.
C19_ExposureCounts ==
    (rpc = "done" /\ statsKey = LinkExposure) =>
        LET exposures == RecordsOfType("linkExposure")
            entries == Range(Get(aggregate, "linkExposures"))
            EntryGroup(entry) ==
                << Get(entry, "sourceDomain"), Get(entry, "destinationDomain"),
                   Get(entry, "dayOfWeek"), Get(entry, "visThreshold") >>
            Visited(n) == Truthy01(storageInstance[n], "laterVisited")
        IN  /\ \A n \in exposures :
                  \E entry \in entries :
                      EntryGroup(entry) = LinkExposureGroup(storageInstance[n])
            /\ \A entry \in entries :
                  LET mine == {n \in exposures :
                                 LinkExposureGroup(storageInstance[n]) = EntryGroup(entry)}
                  IN  /\ Get(entry, "numExposures") = Cardinality(mine)
                      /\ Get(entry, "laterVisitedCount") = SumOver(Visited, mine)

\* The URL constructor rejects the string: it has no scheme or no host.
Malformed(url) == ~(Len(url) >= 3 /\ url[2] = "://")
\* The domain that a grouping URL is to be counted under.
DomainOrEmpty(url, derived) == IF Malformed(url) THEN "" ELSE derived
\* The grouping URLs of a record, by the key of its storage object.
GroupingUrls(key, record) ==
    CASE key = PageNavigation -> {Get(record, "url"), Get(record, "referrer")}
      [] key = LinkExposure ->
           {Get(Get(record, "metadata"), "location"), Get(record, "url")}
      [] key = SocialMediaLinkSharing ->
           {Get(record, "url")}
             \cup (IF Len(Get(record, "prevVisitReferrers")) > 0
                   THEN {Get(record, "prevVisitReferrers")[1]} ELSE {})
TrackedType(key) ==
    CASE key = PageNavigation -> "pageVisit"
      [] key = LinkExposure -> "linkExposure"
      [] key = SocialMediaLinkSharing -> "linkShare"
HasMalformedUrl(key, record) ==
    /\ Defined(record, "type") /\ Get(record, "type") = TrackedType(key)
    /\ \E url \in GroupingUrls(key, record) : Malformed(url)

\* C20: the fold of a record with a malformed grouping URL does not throw,
\* and once computeStats has returned the record is counted in an entry
\* whose domain field for that URL is the empty string.
C20_MalformedUrlCountedUnderEmptyDomain ==
    /\ rpc = "thrown" => ~HasMalformedUrl(statsKey, storageInstance[folded + 1])
    /\ rpc = "done" =>
         \A n \in 1..Len(storageInstance) :
            LET record == storageInstance[n]
            IN  HasMalformedUrl(statsKey, record) =>
                CASE statsKey = PageNavigation ->
                       \E place \in PageVisitEntries :
                          /\ PageVisitEntryGroup(place)[1]
                                = DomainOrEmpty(Get(record, "url"), PageVisitGroup(record)[1])
                          /\ PageVisitEntryGroup(place)[2]
                                = DomainOrEmpty(Get(record, "referrer"),
                                                PageVisitGroup(record)[2])
                          /\ \A j \in 3..5 :
                                PageVisitEntryGroup(place)[j] = PageVisitGroup(record)[j]
                  [] statsKey = LinkExposure ->
                       \E entry \in Range(Get(aggregate, "linkExposures")) :
                          /\ Get(entry, "sourceDomain")
                                = DomainOrEmpty(Get(Get(record, "metadata"), "location"),
                                                LinkExposureGroup(record)[1])
                          /\ Get(entry, "destinationDomain")
                                = DomainOrEmpty(Get(record, "url"),
                                                LinkExposureGroup(record)[2])
                  [] statsKey = SocialMediaLinkSharing ->
                       \E p \in Range(Get(aggregate, "linkSharesByPlatform")) :
                          /\ Get(p, "platform") = Get(record, "platform")
                          /\ \E entry \in Range(Get(p, "trackedShares")) :
                                /\ Get(entry, "domain")
                                      = DomainOrEmpty(Get(record, "url"),
                                                      getHostName(Get(record, "url")))
                                /\ Get(entry, "visitReferrer") = visitReferrerOf(record)

\* ------------------------------------------- page visits at every hour
MaxDays == 1        \* days that the timestamps of the page visits span

\* Two visits of one page from one referrer, each at any hour of the days:
\* they differ in new Date(navObj.visitStart) only.
VisitsAtHours ==
    { << pageVisit(U_A, U_B, t1, 1, FALSE, FALSE),
         pageVisit(U_A, U_B, t2, 1, FALSE, FALSE) >> :
        t1, t2 \in 0..(24 * MaxDays - 1) }

\* onmessage with a page-navigation storage object of two such visits.
BucketInit ==
    /\ PipelineInit /\ LookupOff /\ VoteOff /\ PageOff /\ NoticeOff
    /\ statsKey = PageNavigation
    /\ storageInstance \in VisitsAtHours
    /\ folded = 0
    /\ stats = Setup(statsKey)
    /\ aggregate = << >>
    /\ rpc = "fold"

BucketSpec == BucketInit /\ [][ReducerNext]_vars

\* C21: for every hour 0..23 of a page visit, the time-of-day bucket of the
\* entry that counts the visit is one of 0, 4, 8, 12, 16, 20, is not greater
\* than the hour and is less than 4 below it (13 -> 12, 0 -> 0, 23 -> 20); two
\* visits that differ in their time only are counted in one entry iff they
\* are on the same day and their hours have the same quotient by 4.
C21_TimeBucket ==
    (rpc = "done" /\ statsKey = PageNavigation) =>
        LET Start(n) == Get(storageInstance[n], "visitStart")
            Hour(n) == getHours(Start(n))
            Bucket(place) == Get(PageVisitEntryAt(place), "timeOfDay")
            Counts(place, n) ==
                PageVisitEntryGroup(place) = PageVisitGroup(storageInstance[n])
        IN  /\ \A place \in PageVisitEntries : Bucket(place) \in {0, 4, 8, 12, 16, 20}
            /\ \A n \in RecordsOfType("pageVisit") :
                  /\ Hour(n) \in 0..23
                  /\ \E place \in PageVisitEntries :
                        /\ Get(PageVisitEntryAt(place), "dayOfWeek") = getDay(Start(n))
                        /\ Bucket(place) <= Hour(n)
                        /\ Hour(n) - Bucket(place) < 4
                        /\ Hour(n) = 13 => Bucket(place) = 12
                        /\ Hour(n) = 0 => Bucket(place) = 0
                        /\ Hour(n) = 23 => Bucket(place) = 20
            /\ \A n1, n2 \in RecordsOfType("pageVisit") :
                  ( /\ Get(storageInstance[n1], "url") = Get(storageInstance[n2], "url")
                    /\ Get(storageInstance[n1], "referrer") = Get(storageInstance[n2], "referrer")
                    /\ Get(storageInstance[n1], "classification")
                          = Get(storageInstance[n2], "classification") )
                  => ( (\E place \in PageVisitEntries :
                           /\ Get(PageVisitEntryAt(place), "dayOfWeek") = getDay(Start(n1))
                           /\ Get(PageVisitEntryAt(place), "dayOfWeek") = getDay(Start(n2))
                           /\ Bucket(place) <= Hour(n1) /\ Hour(n1) - Bucket(place) < 4
                           /\ Bucket(place) <= Hour(n2) /\ Hour(n2) - Bucket(place) < 4)
                       <=> ( /\ getDay(Start(n1)) = getDay(Start(n2))
                             /\ Hour(n1) \div 4 = Hour(n2) \div 4 ) )
            /\ Cardinality(PageVisitEntries)
                  = Cardinality({ <<PageVisitGroup(storageInstance[n])[1],
                                    PageVisitGroup(storageInstance[n])[2],
                                    getDay(Start(n)), Hour(n) \div 4,
                                    PageVisitGroup(storageInstance[n])[5]>> :
                                    n \in RecordsOfType("pageVisit") })

\* C21 witness: visits at 13 h and at 15 h of one day were counted in one
\* entry, whose bucket is 12.
C21_Witness ==
    /\ rpc = "done" /\ statsKey = PageNavigation
    /\ Len(storageInstance) = 2
    /\ getHours(Get(storageInstance[1], "visitStart")) = 13
    /\ getHours(Get(storageInstance[2], "visitStart")) = 15
    /\ \E place \in PageVisitEntries :
          /\ Get(PageVisitEntryAt(place), "timeOfDay") = 12
          /\ Get(PageVisitEntryAt(place), "numVisits") = 2

\* ------------------------------------------------------------ C22: gather
\* The names of an object's properties.
Names(obj) == {obj[n][1] : n \in 1..Len(obj)}
\* The entries of the storage object of the given type whose grouping key,
\* as the fold serializes it, is the given text.
FoldedInto(type, Index(_), text) ==
    {n \in RecordsOfType(type) : Index(storageInstance[n]) = text}
pageDomainIndex(navObj) ==
    JSONstringify(<< <<"domain", getDomain(Get(navObj, "url"))>> >>)

\* entry is a plain record with the given group fields and count fields, and
\* the count fields have the values of the bucket.
PlainRecord(entry, groupFields, countFields, bucket) ==
    /\ Names(entry) = groupFields \cup countFields
    /\ \A name \in countFields :
          Defined(entry, name) /\ Get(entry, name) = Get(bucket, name)

C22_PageNavigationFlattened ==
    LET byDomain == Get(stats, "trackedVisitsByDomain")
        domains == Get(aggregate, "trackedVisitsByDomain")
    IN  /\ Len(domains) = Len(byDomain)
        /\ \A d \in 1..Len(byDomain) :
              LET visits == Get(byDomain[d][2], "visitsByReferrer")
                  referrers == Get(domains[d], "trackedVisitsByReferrer")
                  inDomain == FoldedInto("pageVisit", pageDomainIndex, byDomain[d][1])
              IN  /\ Names(domains[d])
                        = {"domain", "numUntrackedVisits", "trackedVisitsByReferrer"}
                  /\ inDomain # {}
                  /\ \A n \in inDomain :
                        Get(domains[d], "domain") = getDomain(Get(storageInstance[n], "url"))
                  /\ Len(referrers) = Len(visits)
                  /\ \A v \in 1..Len(visits) :
                        LET mine == inDomain
                                      \cap FoldedInto("pageVisit", pageVisitIndex, visits[v][1])
                        IN  /\ PlainRecord(referrers[v],
                                           {"referrerDomain", "dayOfWeek", "timeOfDay",
                                            "pageCategory"},
                                           {"numVisits", "totalAttention",
                                            "prevExposedCount", "laterSharedCount"},
                                           visits[v][2])
                            /\ mine # {}
                            /\ \A n \in mine :
                                  <<Get(domains[d], "domain"),
                                    Get(referrers[v], "referrerDomain"),
                                    Get(referrers[v], "dayOfWeek"),
                                    Get(referrers[v], "timeOfDay"),
                                    Get(referrers[v], "pageCategory")>>
                                     = PageVisitGroup(storageInstance[n])

C22_LinkExposureFlattened ==
    LET byIndex == Get(stats, "linkExposures")
        exposures == Get(aggregate, "linkExposures")
    IN  /\ Len(exposures) = Len(byIndex)
        /\ \A x \in 1..Len(byIndex) :
              LET mine == FoldedInto("linkExposure", linkExposureIndex, byIndex[x][1])
              IN  /\ PlainRecord(exposures[x],
                                 {"sourceDomain", "destinationDomain", "dayOfWeek",
                                  "visThreshold"},
                                 {"numExposures", "laterVisitedCount"}, byIndex[x][2])
                  /\ mine # {}
                  /\ \A n \in mine :
                        <<Get(exposures[x], "sourceDomain"),
                          Get(exposures[x], "destinationDomain"),
                          Get(exposures[x], "dayOfWeek"),
                          Get(exposures[x], "visThreshold")>>
                           = LinkExposureGroup(storageInstance[n])

C22_LinkSharingFlattened ==
    LET byPlatform == Get(stats, "linkSharesByPlatform")
        platforms == Get(aggregate, "linkSharesByPlatform")
    IN  /\ Len(platforms) = Len(byPlatform)
        /\ \A p \in 1..Len(byPlatform) :
              LET shares == Get(byPlatform[p][2], "trackedShares")
                  tracked == Get(platforms[p], "trackedShares")
                  onPlatform == FoldedInto("linkShare", platformIndexOf, byPlatform[p][1])
              IN  /\ Names(platforms[p])
                        = {"platform", "numUntrackedShares", "trackedShares"}
                  /\ Get(platforms[p], "numUntrackedShares")
                        = Get(byPlatform[p][2], "numUntrackedShares")
                  /\ \A n \in onPlatform :
                        Get(platforms[p], "platform") = Get(storageInstance[n], "platform")
                  /\ Len(tracked) = Len(shares)
                  /\ \A s \in 1..Len(shares) :
                        LET mine == onPlatform
                                      \cap FoldedInto("linkShare", linkShareIndex, shares[s][1])
                        IN  /\ Names(tracked[s])
                                  = {"domain", "classification", "audience", "source",
                                     "visitReferrer", "numShares"}
                            /\ Get(tracked[s], "numShares") = shares[s][2]
                            /\ mine # {}
                            /\ \A n \in mine :
                                  LET val == storageInstance[n]
                                  IN  <<Get(tracked[s], "domain"),
                                        Get(tracked[s], "classification"),
                                        Get(tracked[s], "audience"),
                                        Get(tracked[s], "source"),
                                        Get(tracked[s], "visitReferrer")>>
                                         = <<getHostName(Get(val, "url")),
                                             Get(val, "classification"),
                                             Get(val, "audience"), Get(val, "source"),
                                             visitReferrerOf(val)>>

AccountInit ==
    /\ PipelineInit /\ LookupOff /\ VoteOff /\ PageOff /\ NoticeOff
    /\ statsKey = SocialMediaAccountExposure
    /\ storageInstance \in Logs(statsKey)
    /\ folded = 0
    /\ stats = Setup(statsKey)
    /\ aggregate = << >>
    /\ rpc = "fold"

AccountSpec == AccountInit /\ [][ReducerNext]_vars

\* The posts of the storage object: (entry, place in the entry's posts).
Posts ==
    {place \in (1..Len(storageInstance)) \X (1..2) :
        place[2] <= Len(Get(storageInstance[place[1]], "posts"))}
PostAt(place) == Get(storageInstance[place[1]], "posts")[place[2]]
\* The accounts that the posts name.
AccountsNamed == {Get(PostAt(place), "account") : place \in {q \in Posts : Defined(PostAt(q), "account")}}
\* Names that an account can have.
AccountNames == {"a", "b", "c", "constructor", "toString"}

\* C23: the result's account_posts has an entry exactly for the accounts that
\* the posts of the log name, each with the number of posts that name it as
\* its count; and at any time the read of an account that has no entry gives
\* the default {platform: "", count: 0}.
C23_AccountPostCounts ==
    /\ (rpc = "done" /\ statsKey = SocialMediaAccountExposure) =>
          LET result == Get(aggregate, "account_posts")
          IN  /\ Names(result) = AccountsNamed
              /\ \A account \in AccountsNamed :
                    Get(Get(result, account), "count")
                       = Cardinality({place \in Posts :
                                        /\ Defined(PostAt(place), "account")
                                        /\ Get(PostAt(place), "account") = account})
    /\ (rpc = "fold" /\ statsKey = SocialMediaAccountExposure) =>
          \A account \in AccountNames :
              ~Has(Get(stats, "account_posts"), account)
                 => proxyGet(Get(stats, "account_posts"), account) = accountDefaultValue

\* The log names accounts with plain names only, and every post names one.
PlainAccountsOnly ==
    /\ \A place \in Posts : Defined(PostAt(place), "account")
    /\ AccountsNamed \cap ObjectPrototypeNames = {}
\* For such a log the entries and their counts are those of the accounts named.
PlainAccountsCounted ==
    /\ (rpc = "done" /\ statsKey = SocialMediaAccountExposure /\ PlainAccountsOnly) =>
          LET result == Get(aggregate, "account_posts")
          IN  /\ Names(result) = AccountsNamed
              /\ \A account \in AccountsNamed :
                    Get(Get(result, account), "count")
                       = Cardinality({place \in Posts :
                                        Get(PostAt(place), "account") = account})

\* ------------------------------------------------------ C24: the audience
\* The audience that a privacy state stands for; "" is the absent state.
AudienceOf(baseState) ==
    IF baseState \in {"friends", "self"} THEN "restricted"
    ELSE IF baseState = "everyone" THEN "public"
    ELSE "unknown"
\* The request is a post or a reshare by its friendly name.
IsPostOrReshare(req) == req.fbName \in {FB_POST_NAME, FB_RESHARE_NAME}

\* C24: when the extractor of a Facebook post or reshare has derived the
\* audience of a post or reshare request, it has not thrown, and the audience
\* is "restricted" for the privacy states "friends" and "self", "public" for
\* "everyone" and "unknown" for every other state, the absent one included.
C24_AudienceOfPrivacyState ==
    \A k \in Execs :
        \A n \in Calls(execs[k], "extractor") :
            LET req == requests[execs[k].rid]
            IN  ( /\ execs[k].log[n].name \in {"extractFacebookPost",
                                                "extractFacebookReshare"}
                  /\ req.url = FB_GRAPHQL
                  /\ IsPostOrReshare(req)
                  /\ execs[k].log[n].out # "pending" )
                => /\ execs[k].log[n].out = "details"
                   /\ checkFacebookPostAudience(req) = AudienceOf(req.baseState)

\* ----------------------------------------------- the lookups, stepwise
LookupFields == {"id", "variables"}

\* A caller has a value to look into, or the react handler has a request.
LookupInit ==
    /\ PipelineInit /\ ReducerOff /\ VoteOff /\ PageOff /\ NoticeOff
    /\ object \in LookupObjects \cup ReactRequests
    /\ fieldName \in LookupFields
    /\ enterArray \in BOOLEAN
    /\ found = NotCalled /\ verified = NotVerified /\ reactionType = ""
    /\ descent = << >>

\* findFieldFacebook(object, fieldName, enterArray)
lookup ==
    /\ found = NotCalled
    /\ found' = findFieldFacebook(object, fieldName, enterArray, 5)
    /\ descent' = callsOf(object, fieldName, enterArray, 5)
    /\ UNCHANGED <<pipeline, reducer, votes, page, notice, object, fieldName, enterArray, verified,
                   reactionType>>

\* handleGenericEvent calls the last verifier of facebook react.
verifyReact ==
    /\ object \in ReactRequests
    /\ verified = NotVerified
    /\ verified' = verifyFacebookReactRequest(object)
    /\ UNCHANGED <<pipeline, reducer, votes, page, notice, object, fieldName, enterArray, found,
                   descent, reactionType>>

\* ... and, the request verified, its extractor.
extractReact ==
    /\ verified.out = "ok"
    /\ reactionType = ""
    /\ reactionType' = extractFacebookReact(verified)
    /\ UNCHANGED <<pipeline, reducer, votes, page, notice, object, fieldName, enterArray, found,
                   descent, verified>>

LookupNext == lookup \/ verifyReact \/ extractReact

LookupSpec == LookupInit /\ [][LookupNext]_vars

\* The friendly name of a request, as the string that the form carries.
FriendlyNameOf(requestDetails) ==
    IF Has(formDataOf(requestDetails).v, "fb_api_req_friendly_name")
    THEN Get(formDataOf(requestDetails).v, "fb_api_req_friendly_name").v[1].v
    ELSE << >>
\* The string contains the text.
Contains(string, text) == \E n \in 1..Len(string) : string[n] = text
\* The feedback_reaction of a request's variables, JNull without one.
FeedbackReactionOf(requestDetails) ==
    LET variables == Get(formDataOf(requestDetails).v, "variables").v[1].v
        input == IF Has(variables.v, "input") THEN Get(variables.v, "input")
                 ELSE JObj(<< >>)
    IN  IF Has(input.v, "feedback_reaction") THEN Get(input.v, "feedback_reaction")
        ELSE JNull
ReactionTypeOf(reaction) ==
    CASE reaction = JNum(0) -> "remove" [] reaction = JNum(1) -> "like"
      [] reaction = JNum(2) -> "love" [] reaction = JNum(3) -> "wow"
      [] reaction = JNum(4) -> "haha" [] reaction = JNum(7) -> "sad"
      [] reaction = JNum(8) -> "angry" [] reaction = JNum(16) -> "care"
      [] OTHER -> "unknown"

\* C25: a Facebook request is accepted as a react event iff its friendly name
\* contains "UFI2FeedbackReactMutation" or "CometUFIFeedbackReactMutation",
\* and the reactionType extracted from it is given by feedback_reaction
\* alone: 0 remove, 1 like, 2 love, 3 wow, 4 haha, 7 sad, 8 angry, 16 care,
\* "unknown" for any other value.
C25_ReactAcceptedAndTyped ==
    /\ verified # NotVerified =>
          ( verified.out = "ok"
            <=> \/ Contains(FriendlyNameOf(object), "UFI2FeedbackReactMutation")
                \/ Contains(FriendlyNameOf(object), "CometUFIFeedbackReactMutation") )
    /\ reactionType # "" =>
          reactionType = ReactionTypeOf(FeedbackReactionOf(object))

\* The reaction types alone: what C25 says of an accepted request.
ReactionTyped ==
    reactionType # "" => reactionType = ReactionTypeOf(FeedbackReactionOf(object))
\* Acceptance for the friendly names that are a marker or contain none.
AcceptedWhenNameIsMarker ==
    (verified # NotVerified /\ Len(FriendlyNameOf(object)) <= 1) =>
        ( verified.out = "ok"
          <=> \/ Contains(FriendlyNameOf(object), "UFI2FeedbackReactMutation")
              \/ Contains(FriendlyNameOf(object), "CometUFIFeedbackReactMutation") )

\* What the direct value of a field stands for once looked up: itself, or the
\* value that its text is the JSON text of.
Unparsed(value) == IF value.t = "json" THEN value.v ELSE value

\* C26: when the field is present directly on the object, the lookup returns
\* the value found there, and not a value of the same field nested deeper;
\* when that value is an array and array entry is enabled, it returns the
\* array's first element.
C26_DirectFieldArrayUnwrapped ==
    (found # NotCalled /\ FieldIn(fieldName, object)) =>
        LET value == Get(object.v, fieldName)
        IN  IF value.t = "arr" /\ Len(value.v) > 0 /\ enterArray
            THEN found = Unparsed(value.v[1])
            ELSE found = Unparsed(value)

\* A directly present field wins over the same field nested deeper: the
\* result is the direct value, or what its text parses to.
DirectFieldWins ==
    (found # NotCalled /\ FieldIn(fieldName, object)) =>
        LET value == Get(object.v, fieldName)
        IN  found = (IF JSONparseOf(value).ok THEN JSONparseOf(value).value ELSE value)

\* ------------------------------------------------ the Reddit vote verifiers
\* The ids that a vote request carries in formData.id[0]: none, the two type
\* prefixes alone and followed by a character, a prefix cut short, another
\* type prefix, and an id with the prefix not at its start.
VoteIds ==
    { << >>, T3, T1, T3 \o <<"a">>, T1 \o <<"a">>, <<"t", "3">>, <<"t", "1">>,
      <<"t", "5", "_", "a">>, <<"a">> \o T3, <<"a">> \o T1 }

\* The requests to the vote endpoint that the verifiers are tried on.
VoteCandidates ==
    { [BaseRequest EXCEPT !.url = REDDIT_VOTE, !.fields = f, !.id = i, !.method = m] :
        f \in {{}, {"dir"}}, i \in VoteIds, m \in {"POST", "GET"} }

VoteInit ==
    /\ PipelineInit /\ ReducerOff /\ LookupOff /\ PageOff /\ NoticeOff
    /\ candidate \in VoteCandidates
    /\ verdict = [name \in VoteVerifiers |-> "none"]

\* One of the verifiers is called with the request, as handleGenericEvent
\* calls it for the postVote and for the commentVote handler.
callVoteVerifier(name) ==
    /\ verdict[name] = "none"
    /\ verdict' = [verdict EXCEPT ![name] = CallVerifier(name, candidate, 1, {}).out]
    /\ UNCHANGED <<pipeline, reducer, lookups, page, notice, candidate>>

VoteNext == \E name \in VoteVerifiers : callVoteVerifier(name)

VoteSpec == VoteInit /\ [][VoteNext]_vars

\* The id has the three characters a, b, c at its start.
HasTypePrefix(id, a, b, c) ==
    Len(id) >= 3 /\ id[1] = a /\ id[2] = b /\ id[3] = c

IdAndDirPresent == candidate.id # << >> /\ "dir" \in candidate.fields

AcceptedAs(name) == verdict[name] = "ok"
Tried(name) == verdict[name] # "none"

\* C27: a vote request is accepted by verifyRedditPostVote exactly when id and
\* dir are present and non-empty and the id starts with "t3_", and by
\* verifyRedditCommentVote exactly when they are present and non-empty and the id
\* starts with "t1_"; no request is accepted by both, and a request whose id
\* starts with neither prefix is accepted by neither.
C27_VotePrefixDecides ==
    /\ Tried("verifyRedditPostVote") =>
          (AcceptedAs("verifyRedditPostVote")
             <=> IdAndDirPresent /\ HasTypePrefix(candidate.id, "t", "3", "_"))
    /\ Tried("verifyRedditCommentVote") =>
          (AcceptedAs("verifyRedditCommentVote")
             <=> IdAndDirPresent /\ HasTypePrefix(candidate.id, "t", "1", "_"))
    /\ ~(AcceptedAs("verifyRedditPostVote") /\ AcceptedAs("verifyRedditCommentVote"))
    /\ (/\ ~HasTypePrefix(candidate.id, "t", "3", "_")
        /\ ~HasTypePrefix(candidate.id, "t", "1", "_"))
         => (/\ verdict["verifyRedditPostVote"] \in {"none", "null"}
             /\ verdict["verifyRedditCommentVote"] \in {"none", "null"})

\* C27 witness: both verifiers have been called with a request that carries
\* dir and an id with the post prefix; the post verifier accepted it and the
\* comment verifier returned null.
C27_Witness ==
    /\ IdAndDirPresent /\ candidate.id = T3 \o <<"a">>
    /\ verdict["verifyRedditPostVote"] = "ok"
    /\ verdict["verifyRedditCommentVote"] = "null"

\* Both verifiers have been called with a request whose id has another type
\* prefix, and both returned null.
OtherPrefixTried ==
    /\ IdAndDirPresent /\ candidate.id = <<"t", "5", "_", "a">>
    /\ verdict["verifyRedditPostVote"] = "null"
    /\ verdict["verifyRedditCommentVote"] = "null"

\* ------------------------------------------------ the generic POST verifier
\* C28: every execution that delivered an event to a listener handled a request
\* whose method is POST: verifyPostReq rejects every other request, on every
\* platform and event type.
C28_OnlyPostDelivered ==
    \A k \in Execs : Delivered(execs[k]) => requests[execs[k].rid].method = "POST"

\* A request that has no method at all is the only one verifyPostReq could
\* tell apart, and it does not reject that one either.
PostVerifierRejectsNothing ==
    \A method \in {"", "GET", "PUT", "POST"} :
        verifyPostReq([BaseRequest EXCEPT !.method = method]) = "ok"

\* ------------------------------------------ the PageManager content script
MaxLoads == 2       \* runs of the PageManager content script on one page
MaxVisits == 2      \* page visit starts on one page
MaxTime == 2        \* the time stamps that a page load can carry
MaxUpdates == 2     \* changes of the attention and audio state on one page

Times == 1..MaxTime

\* window.location: the URL up to the hash, and the hash ("" when there is none).
Locations == [base : {"/a", "/b"}, hash : {"", "#h"}]

\* window.location.href and the length of window.location.hash, counted in
\* the two parts that a URL is made of here.
href(loc) == IF loc.hash = "" THEN <<loc.base>> ELSE <<loc.base, loc.hash>>
hashLength(loc) == IF loc.hash = "" THEN 0 ELSE 1

\* String.prototype.slice(start) with one argument: a negative start counts
\* from the end, and -0 is 0.
slice(str, start) ==
    IF start >= 0 THEN SubSeq(str, start + 1, Len(str))
    ELSE SubSeq(str, (IF Len(str) + start < 0 THEN 0 ELSE Len(str) + start) + 1, Len(str))

locationHrefWithoutHash(loc) == slice(href(loc), -1 * hashLength(loc))

\* locationHrefWithoutHash() !== PageManager.url, in the urlChanged handler.
urlHasChanged == locationHrefWithoutHash(location) # pageUrl

\* typeof of an Array is "object".
typeofArray == "object"

\* The functions of window.pageManagerHasLoaded that the PageManager content
\* script calls when it has loaded.
callbacksToCall(present, queue) ==
    IF present /\ typeofArray = "array" THEN queue ELSE << >>

\* Set.prototype.add on a Set kept in insertion order.
add(set, listener) ==
    IF \E i \in 1..Len(set) : set[i] = listener THEN set ELSE Append(set, listener)

\* Set.prototype.delete.
delete(set, listener) == SelectSeq(set, LAMBDA l : l # listener)

\* An entry of the page's history: what happened, to or for whom, and the
\* state of PageManager that went with it.
Snapshot(type, who, of, id, time, attention, audio) ==
    [type |-> type, who |-> who, of |-> of, threw |-> FALSE,
     started |-> pageVisitStarted, at |-> location, pageId |-> id,
     startTime |-> time, attention |-> attention, audio |-> audio]

Event(type, who) ==
    Snapshot(type, who, "none", pageId, pageVisitStartTime, pageHasAttention, pageHasAudio)

\* A variant of pageVisitStart that leaves pageVisitStarted as it was.
startedWhileFiring_kept(previous) == previous

\* PageManager.pageVisitStarted = false, at the beginning of pageVisitStart.
startedWhileFiring(previous) == "false"

\* A variant of pageVisitStart that resets the state on every page load.
persisted_never(isHistoryChange, previous) == "false"

\* isHistoryChange ? PageManager.pageHasAttention : false, and the same for audio.
persisted(isHistoryChange, previous) == IF isHistoryChange THEN previous ELSE "false"

\* A comparison that never finds the received state to be the current one.
sameState_never(current, received) == FALSE

\* PageManager.pageHasAttention === pageHasAttention, and the same for audio.
sameState(current, received) == current = received

\* A variant of notifyListeners without the try and catch around the call.
caught_not(behaviour) == behaviour # "throws"

\* Whether notifyListeners goes on to the next listener after a call.
caught(behaviour) == TRUE

\* The random page id: one that no page visit has had.
generatePageId == pageVisits + 1

RECURSIVE callAll(_, _)
\* main of each content script in the list is called: it registers its
\* listener of the page visit start event.
callAll(queue, set) ==
    IF queue = << >> THEN set ELSE callAll(Tail(queue), add(set, Head(queue)))

\* What a listener does when it is called.
Behaviours == {"returns", "throws", "removesItself"}

AllEvents == OtherEvents \cup {"onPageVisitStart"}

PageInit ==
    /\ PipelineInit /\ ReducerOff /\ LookupOff /\ VoteOff /\ NoticeOff
    /\ windowHas = {} /\ pageManagerHasLoaded = << >> /\ scriptsRun = {}
    /\ pmRuns = 0 /\ mainCalls = [c \in Scripts |-> 0]
    /\ location \in Locations /\ pageUrl = << >>
    /\ pageVisitStarted = "undefined" /\ listeners = << >>
    /\ pmPc = "idle" /\ notifyAt = 0 /\ pageVisits = 0 /\ events = << >>
    /\ pageId = 0 /\ pageVisitStartTime = 0
    /\ pageHasAttention = "undefined" /\ pageHasAudio = "undefined"
    /\ eventListeners = [e \in OtherEvents |-> << >>]
    /\ firing = "none" /\ after = Idle /\ lastMessage = NoMessage

\* pageVisitStart, up to the call of notifyListeners: `before` is the history
\* that the new visit's entry is appended to.
pageVisitStart(timeStamp, isHistoryChange, before) ==
    LET attention == persisted(isHistoryChange, pageHasAttention)
        audio == persisted(isHistoryChange, pageHasAudio)
    IN  /\ pageId' = generatePageId
        /\ pageUrl' = locationHrefWithoutHash(location)
        /\ pageVisitStartTime' = timeStamp
        /\ pageHasAttention' = attention
        /\ pageHasAudio' = audio
        /\ pageVisitStarted' = startedWhileFiring(pageVisitStarted)
        /\ pageVisits' = pageVisits + 1
        /\ events' = Append(before,
               Snapshot("start", IF isHistoryChange THEN 1 ELSE 0, "onPageVisitStart",
                        generatePageId, timeStamp, attention, audio))
        /\ pmPc' = "notifying" /\ notifyAt' = 1 /\ firing' = "none" /\ after' = Idle

\* A page visit stop that sends no message and notifies nobody.
pageVisitStop_silent(then) ==
    /\ events' = events
    /\ pmPc' = "firing" /\ firing' = "onPageVisitStop"
    /\ notifyAt' = Len(eventListeners["onPageVisitStop"]) + 1
    /\ after' = then

\* pageVisitStop, up to the call of notifyListeners; `then` is what the caller
\* does afterwards.
pageVisitStop(then) ==
    /\ events' = Append(events, Snapshot("stop", 0, "onPageVisitStop", pageId,
                                         pageVisitStartTime, pageHasAttention, pageHasAudio))
    /\ pmPc' = "firing" /\ firing' = "onPageVisitStop" /\ notifyAt' = 1
    /\ after' = then

\* Another content script that uses the API runs: it calls its main function
\* when PageManager exists and queues it otherwise. main registers a listener
\* of the page visit start event and calls it itself when the event has fired.
contentScript(c) ==
    /\ pmPc = "idle" /\ c \notin scriptsRun
    /\ scriptsRun' = scriptsRun \cup {c}
    /\ IF "PageManager" \in windowHas
       THEN /\ mainCalls' = [mainCalls EXCEPT ![c] = @ + 1]
            /\ listeners' = add(listeners, c)
            /\ events' = events \o <<Event("main", c)>>
                           \o (IF pageVisitStarted = "true"
                               THEN <<Event("own", c)>> ELSE << >>)
            /\ UNCHANGED <<windowHas, pageManagerHasLoaded>>
       ELSE /\ windowHas' = windowHas \cup {"pageManagerHasLoaded"}
            /\ pageManagerHasLoaded' =
                   Append(IF "pageManagerHasLoaded" \in windowHas
                          THEN pageManagerHasLoaded ELSE << >>, c)
            /\ UNCHANGED <<mainCalls, listeners, events>>
    /\ UNCHANGED <<pipeline, reducer, lookups, votes, notice, pmRuns, location, pageUrl,
                   pageVisitStarted, pmPc, notifyAt, pageVisits, pageId,
                   pageVisitStartTime, pageHasAttention, pageHasAudio, eventListeners,
                   firing, after, lastMessage>>

\* The PageManager content script runs: it bails out when PageManager exists;
\* otherwise it creates the object, handles window.pageManagerHasLoaded and
\* begins the first page visit start, up to the call of notifyListeners.
pageManagerScript(timeOrigin) ==
    /\ pmPc = "idle" /\ pmRuns < MaxLoads
    /\ pmRuns' = pmRuns + 1
    /\ IF "PageManager" \in windowHas
       THEN UNCHANGED <<windowHas, pageManagerHasLoaded, mainCalls, listeners, events,
                        pageUrl, pageVisitStarted, pmPc, notifyAt, pageVisits, pageId,
                        pageVisitStartTime, pageHasAttention, pageHasAudio, firing, after>>
       ELSE LET calls == callbacksToCall("pageManagerHasLoaded" \in windowHas,
                                         pageManagerHasLoaded)
            IN  /\ windowHas' = (windowHas \cup {"PageManager"}) \ {"pageManagerHasLoaded"}
                /\ pageManagerHasLoaded' = << >>
                /\ mainCalls' = [c \in Scripts |->
                       mainCalls[c] + Cardinality({i \in 1..Len(calls) : calls[i] = c})]
                /\ listeners' = callAll(calls, listeners)
                /\ pageVisitStart(timeOrigin, FALSE,
                       events \o <<Event("created", 0)>>
                              \o [i \in 1..Len(calls) |-> Event("callback", calls[i])])
    /\ UNCHANGED <<pipeline, reducer, lookups, votes, notice, scriptsRun, location,
                   eventListeners, lastMessage>>

\* One call of a listener by notifyListeners, recorded with what the listener
\* saw and did.
Notified(of, who, behaviour) ==
    [Snapshot("notify", who, of, pageId, pageVisitStartTime, pageHasAttention,
              pageHasAudio) EXCEPT !.threw = (behaviour = "throws")]

\* notifyListeners calls the next listener of the page visit start event; what
\* the listener throws is caught.
notifyListener(behaviour) ==
    /\ pmPc = "notifying" /\ notifyAt <= Len(listeners)
    /\ events' = Append(events, Notified("onPageVisitStart", listeners[notifyAt], behaviour))
    /\ IF ~caught(behaviour)
       THEN pmPc' = "thrown" /\ UNCHANGED <<listeners, notifyAt>>
       ELSE /\ pmPc' = pmPc
            /\ IF behaviour = "removesItself"
               THEN listeners' = delete(listeners, listeners[notifyAt])
                    /\ notifyAt' = notifyAt
               ELSE listeners' = listeners /\ notifyAt' = notifyAt + 1
    /\ UNCHANGED <<pipeline, reducer, lookups, votes, notice, windowHas, pageManagerHasLoaded,
                   scriptsRun, pmRuns, mainCalls, location, pageUrl, pageVisitStarted,
                   pageVisits, pageId, pageVisitStartTime, pageHasAttention,
                   pageHasAudio, eventListeners, firing, after, lastMessage>>

\* notifyListeners has returned: pageVisitStart sets pageVisitStarted.
pageVisitStarts ==
    /\ pmPc = "notifying" /\ notifyAt > Len(listeners)
    /\ pageVisitStarted' = "true"
    /\ pmPc' = "idle"
    /\ events' = Append(events, [Event("started", 0) EXCEPT !.started = "true"])
    /\ UNCHANGED <<pipeline, reducer, lookups, votes, notice, windowHas, pageManagerHasLoaded,
                   scriptsRun, pmRuns, mainCalls, location, pageUrl, listeners,
                   notifyAt, pageVisits, pageId, pageVisitStartTime, pageHasAttention,
                   pageHasAudio, eventListeners, firing, after, lastMessage>>

\* notifyListeners calls the next listener of the stop, attention or audio event.
notifyEventListener(behaviour) ==
    /\ pmPc = "firing" /\ notifyAt <= Len(eventListeners[firing])
    /\ events' = Append(events, Notified(firing, eventListeners[firing][notifyAt], behaviour))
    /\ IF ~caught(behaviour)
       THEN pmPc' = "thrown" /\ UNCHANGED <<eventListeners, notifyAt>>
       ELSE /\ pmPc' = pmPc
            /\ IF behaviour = "removesItself"
               THEN eventListeners' = [eventListeners EXCEPT ![firing] =
                        delete(@, eventListeners[firing][notifyAt])]
                    /\ notifyAt' = notifyAt
               ELSE eventListeners' = eventListeners /\ notifyAt' = notifyAt + 1
    /\ UNCHANGED <<pipeline, reducer, lookups, votes, notice, windowHas, pageManagerHasLoaded,
                   scriptsRun, pmRuns, mainCalls, location, pageUrl, pageVisitStarted,
                   listeners, pageVisits, pageId, pageVisitStartTime, pageHasAttention,
                   pageHasAudio, firing, after, lastMessage>>

\* notifyListeners of the stop, attention or audio event has returned: after a
\* stop caused by a URL change the new page visit starts, after the stop at
\* unload nothing follows, and otherwise the message handler returns.
eventFired ==
    /\ pmPc = "firing" /\ notifyAt > Len(eventListeners[firing])
    /\ IF after.next = "start"
       THEN pageVisitStart(after.timeStamp, TRUE, events)
       ELSE /\ pmPc' = after.next /\ firing' = "none" /\ after' = Idle
            /\ UNCHANGED <<pageId, pageUrl, pageVisitStartTime, pageHasAttention,
                           pageHasAudio, pageVisitStarted, pageVisits, events, notifyAt>>
    /\ UNCHANGED <<pipeline, reducer, lookups, votes, notice, windowHas, pageManagerHasLoaded,
                   scriptsRun, pmRuns, mainCalls, location, listeners, eventListeners,
                   lastMessage>>

\* The page changes its URL with the History API or by a jump to a hash.
pushState(loc) ==
    /\ pmPc = "idle" /\ loc # location
    /\ location' = loc
    /\ UNCHANGED <<pipeline, reducer, lookups, votes, notice, windowHas, pageManagerHasLoaded,
                   scriptsRun, pmRuns, mainCalls, pageUrl, pageVisitStarted, listeners,
                   pmPc, notifyAt, pageVisits, events, pageId, pageVisitStartTime,
                   pageHasAttention, pageHasAudio, eventListeners, firing, after,
                   lastMessage>>

\* The background page reports a URL change: when the URL differs from the one
\* stored, the page visit stops and a new one begins as a History API load.
urlChanged(timeStamp) ==
    /\ pmPc = "idle" /\ "PageManager" \in windowHas /\ pageVisits < MaxVisits
    /\ lastMessage' = [type |-> "urlChanged", value |-> "undefined"]
    /\ IF urlHasChanged
       THEN pageVisitStop([next |-> "start", timeStamp |-> timeStamp])
       ELSE UNCHANGED <<events, pmPc, firing, notifyAt, after>>
    /\ UNCHANGED <<pipeline, reducer, lookups, votes, notice, windowHas, pageManagerHasLoaded,
                   scriptsRun, pmRuns, mainCalls, location, pageUrl, pageVisitStarted,
                   listeners, pageVisits, pageId, pageVisitStartTime, pageHasAttention,
                   pageHasAudio, eventListeners>>

\* The changes of the attention and audio state so far.
Updates == Cardinality({i \in 1..Len(events) : events[i].type = "update"})

\* The background page reports the attention state: nothing happens when it is
\* the current one; otherwise it is stored and the listeners are notified.
pageAttentionUpdate(value) ==
    /\ pmPc = "idle" /\ "PageManager" \in windowHas
    /\ pageHasAttention # value => Updates < MaxUpdates
    /\ lastMessage' = [type |-> "pageAttentionUpdate", value |-> value]
    /\ IF sameState(pageHasAttention, value)
       THEN UNCHANGED <<pageHasAttention, events, pmPc, firing, notifyAt, after>>
       ELSE /\ pageHasAttention' = value
            /\ events' = Append(events, Snapshot("update", 0, "onPageAttentionUpdate",
                                   pageId, pageVisitStartTime, value, pageHasAudio))
            /\ pmPc' = "firing" /\ firing' = "onPageAttentionUpdate" /\ notifyAt' = 1
            /\ after' = Idle
    /\ UNCHANGED <<pipeline, reducer, lookups, votes, notice, windowHas, pageManagerHasLoaded,
                   scriptsRun, pmRuns, mainCalls, location, pageUrl, pageVisitStarted,
                   listeners, pageVisits, pageId, pageVisitStartTime, pageHasAudio,
                   eventListeners>>

\* The background page reports the audio state, in the same way.
pageAudioUpdate(value) ==
    /\ pmPc = "idle" /\ "PageManager" \in windowHas
    /\ pageHasAudio # value => Updates < MaxUpdates
    /\ lastMessage' = [type |-> "pageAudioUpdate", value |-> value]
    /\ IF sameState(pageHasAudio, value)
       THEN UNCHANGED <<pageHasAudio, events, pmPc, firing, notifyAt, after>>
       ELSE /\ pageHasAudio' = value
            /\ events' = Append(events, Snapshot("update", 0, "onPageAudioUpdate",
                                   pageId, pageVisitStartTime, pageHasAttention, value))
            /\ pmPc' = "firing" /\ firing' = "onPageAudioUpdate" /\ notifyAt' = 1
            /\ after' = Idle
    /\ UNCHANGED <<pipeline, reducer, lookups, votes, notice, windowHas, pageManagerHasLoaded,
                   scriptsRun, pmRuns, mainCalls, location, pageUrl, pageVisitStarted,
                   listeners, pageVisits, pageId, pageVisitStartTime, pageHasAttention,
                   eventListeners>>

\* The window unloads: the page visit stops.
unload ==
    /\ pmPc = "idle" /\ "PageManager" \in windowHas
    /\ pageVisitStop([next |-> "unloaded", timeStamp |-> 0])
    /\ UNCHANGED <<pipeline, reducer, lookups, votes, notice, windowHas, pageManagerHasLoaded,
                   scriptsRun, pmRuns, mainCalls, location, pageUrl, pageVisitStarted,
                   listeners, pageVisits, pageId, pageVisitStartTime, pageHasAttention,
                   pageHasAudio, eventListeners, lastMessage>>

\* A content script adds a listener to an event of PageManager.
addListener(event, listener) ==
    /\ pmPc = "idle" /\ "PageManager" \in windowHas
    /\ IF event = "onPageVisitStart"
       THEN listeners' = add(listeners, listener) /\ UNCHANGED eventListeners
       ELSE eventListeners' = [eventListeners EXCEPT ![event] = add(@, listener)]
            /\ UNCHANGED listeners
    /\ UNCHANGED <<pipeline, reducer, lookups, votes, notice, windowHas, pageManagerHasLoaded,
                   scriptsRun, pmRuns, mainCalls, location, pageUrl, pageVisitStarted,
                   pmPc, notifyAt, pageVisits, events, pageId, pageVisitStartTime,
                   pageHasAttention, pageHasAudio, firing, after, lastMessage>>

\* A content script removes a listener from an event of PageManager.
removeListener(event, listener) ==
    /\ pmPc = "idle" /\ "PageManager" \in windowHas
    /\ IF event = "onPageVisitStart"
       THEN listeners' = delete(listeners, listener) /\ UNCHANGED eventListeners
       ELSE eventListeners' = [eventListeners EXCEPT ![event] = delete(@, listener)]
            /\ UNCHANGED listeners
    /\ UNCHANGED <<pipeline, reducer, lookups, votes, notice, windowHas, pageManagerHasLoaded,
                   scriptsRun, pmRuns, mainCalls, location, pageUrl, pageVisitStarted,
                   pmPc, notifyAt, pageVisits, events, pageId, pageVisitStartTime,
                   pageHasAttention, pageHasAudio, firing, after, lastMessage>>

\* The page visits: content scripts in any order, URL changes and unload, with
\* listeners that return.
PageNext ==
    \/ \E c \in Scripts : contentScript(c)
    \/ \E timeOrigin \in Times : pageManagerScript(timeOrigin)
    \/ notifyListener("returns")
    \/ pageVisitStarts
    \/ eventFired
    \/ \E loc \in Locations : pushState(loc)
    \/ \E timeStamp \in Times : urlChanged(timeStamp)
    \/ unload

PageSpec == PageInit /\ [][PageNext]_vars

\* One page visit with attention and audio updates and listeners of them.
UpdateNext ==
    \/ \E timeOrigin \in Times : pageManagerScript(timeOrigin)
    \/ pageVisitStarts
    \/ \E event \in {"onPageAttentionUpdate", "onPageAudioUpdate"}, c \in Scripts :
           addListener(event, c)
    \/ notifyEventListener("returns")
    \/ eventFired
    \/ \E value \in {"false", "true"} : pageAttentionUpdate(value)
    \/ \E value \in {"false", "true"} : pageAudioUpdate(value)

UpdateSpec == PageInit /\ [][UpdateNext]_vars

\* The events that content scripts add listeners to and remove them from.
ListenerEvents == {"onPageVisitStart", "onPageVisitStop"}

\* The page is opened at one URL without a hash.
ListenerInit == PageInit /\ location = [base |-> "/a", hash |-> ""]

\* The page with listeners that are added and removed, and that return, throw
\* or remove themselves when they are called; the History API takes the page
\* to one other URL.
ListenerNext ==
    \/ pageManagerScript(MaxTime)
    \/ \E event \in ListenerEvents, c \in Scripts : addListener(event, c)
    \/ \E event \in ListenerEvents, c \in Scripts : removeListener(event, c)
    \/ \E behaviour \in Behaviours : notifyListener(behaviour)
    \/ \E behaviour \in Behaviours : notifyEventListener(behaviour)
    \/ pageVisitStarts
    \/ eventFired
    \/ pushState([base |-> "/b", hash |-> ""])
    \/ urlChanged(MaxTime)
    \/ unload

ListenerSpec == ListenerInit /\ [][ListenerNext]_vars

\* The page with attention and audio updates between its loads.
AttentionNext ==
    \/ \E timeOrigin \in Times : pageManagerScript(timeOrigin)
    \/ pageVisitStarts
    \/ eventFired
    \/ \E loc \in Locations : pushState(loc)
    \/ \E timeStamp \in Times : urlChanged(timeStamp)
    \/ \E value \in {"false", "true"} : pageAttentionUpdate(value)
    \/ \E value \in {"false", "true"} : pageAudioUpdate(value)

AttentionSpec == PageInit /\ [][AttentionNext]_vars

\* The positions of the events of one type.
EventsOf(type) == {i \in 1..Len(events) : events[i].type = type}

\* The position of the start event of the current page visit, 0 before the first.
LastStart ==
    IF EventsOf("start") = {} THEN 0
    ELSE CHOOSE i \in EventsOf("start") : \A j \in EventsOf("start") : j <= i

\* The listeners notified of the start of the current page visit.
NotifiedOfCurrentVisit ==
    {events[i].who : i \in {j \in EventsOf("notify") : j > LastStart}}

RegisteredListeners == {listeners[i] : i \in 1..Len(listeners)}

\* C29: pageVisitStarted is false during the whole time the listeners of the
\* page visit start event are being notified (every listener sees false when it
\* is called); it becomes true only when every registered listener has been
\* notified of the visit; and every page visit start, the first one and those
\* caused by the History API, sets it to false at its beginning.
C29_StartedOnlyAfterNotification ==
    /\ [](/\ pmPc = "notifying" => pageVisitStarted = "false"
          /\ \A i \in EventsOf("notify") : events[i].started = "false")
    /\ [][/\ (pageVisitStarted' = "true" /\ pageVisitStarted # "true")
               => (/\ notifyAt > Len(listeners)
                   /\ NotifiedOfCurrentVisit = RegisteredListeners)
          /\ pageVisits' # pageVisits
               => (pageVisitStarted' = "false" /\ pmPc' = "notifying")]_vars

\* C29 witness: a page visit that began as a History API load, while
\* pageVisitStarted was true, has notified two listeners, and pageVisitStarted
\* is true again.
C29_Witness ==
    /\ pageVisits >= 2 /\ LastStart > 0
    /\ events[LastStart].who = 1 /\ events[LastStart].started = "true"
    /\ NotifiedOfCurrentVisit = Scripts
    /\ pageVisitStarted = "true" /\ pmPc = "idle"

\* C30: once the PageManager content script has run, every function that a
\* content script pushed onto window.pageManagerHasLoaded before has been
\* called exactly once, after window.PageManager was created and before the
\* first page visit start event.
C30_QueuedCallbacksCalled ==
    "PageManager" \in windowHas =>
        \A c \in scriptsRun :
            (\A i \in EventsOf("main") : events[i].who # c) =>
                /\ mainCalls[c] = 1
                /\ \E i \in EventsOf("callback") :
                       /\ events[i].who = c
                       /\ \E j \in EventsOf("created") : j < i
                       /\ \A j \in EventsOf("start") : i < j

\* The functions queued before the PageManager content script ran are never
\* called, and the queue is deleted.
QueuedCallbacksDropped ==
    /\ EventsOf("callback") = {}
    /\ "PageManager" \in windowHas =>
          /\ "pageManagerHasLoaded" \notin windowHas
          /\ \A c \in Scripts : mainCalls[c] = Cardinality({i \in EventsOf("main") : events[i].who = c})

\* window.location as it was when the current page visit started.
VisitLocation == events[LastStart].at

PageIsIdle == "PageManager" \in windowHas /\ pmPc = "idle"

\* C31: PageManager.url is the URL of the page visit without its hash, so that
\* a urlChanged message is taken for a page load (a stop and a start are fired)
\* exactly when the location differs from the location of the current page
\* visit in another part than the hash.
C31_HashIgnoredInUrl ==
    PageIsIdle =>
        /\ pageUrl = <<VisitLocation.base>>
        /\ urlHasChanged <=> location.base # VisitLocation.base

\* What PageManager.url holds instead: the whole URL when the page visit
\* started without a hash, and the hash alone when it started with one.
UrlIsHashWhenThereIsOne ==
    PageIsIdle =>
        pageUrl = IF VisitLocation.hash = "" THEN <<VisitLocation.base>>
                  ELSE <<VisitLocation.hash>>

\* A page visit that began as a History API load although the location
\* differed from the one of the visit before only in the hash.
HashJumpTakenForPageLoad ==
    \E i, j \in EventsOf("start") :
        /\ i < j /\ events[j].who = 1
        /\ events[i].at.base = events[j].at.base

\* The location has changed in its base, and a urlChanged message fires nothing.
PageLoadMissed ==
    PageIsIdle /\ location.base # VisitLocation.base /\ ~urlHasChanged

\* ------------------------------------------ attention and audio updates
\* The state of the page apart from the last message received.
pageState ==
    <<windowHas, pageManagerHasLoaded, scriptsRun, pmRuns, mainCalls, location, pageUrl,
      pageVisitStarted, listeners, pmPc, notifyAt, pageVisits, events, pageId,
      pageVisitStartTime, pageHasAttention, pageHasAudio, eventListeners, firing, after>>

\* The calls of the listeners of one event.
NotifiedOf(event) == {i \in EventsOf("notify") : events[i].of = event}

\* The entry of the update that the listener call at position i belongs to: the
\* last update of the event before it.
UpdateBefore(i, event) ==
    LET before == {j \in EventsOf("update") : j < i /\ events[j].of = event}
    IN  IF before = {} THEN 0 ELSE CHOOSE j \in before : \A k \in before : k <= j

\* C32: the listeners of the attention event (and of the audio event) are
\* notified only for an update whose state differs from the state before it,
\* and between that update and the call nothing but listener calls of the same
\* event has happened; a message that repeats the current state changes
\* nothing on the page and notifies no listener.
C32_UpdatesOnlyOnChange ==
    /\ [](/\ \A i \in NotifiedOf("onPageAttentionUpdate") :
               LET u == UpdateBefore(i, "onPageAttentionUpdate")
               IN  /\ u > 1
                   /\ events[u].attention # events[u - 1].attention
                   /\ events[i].attention = events[u].attention
                   /\ \A k \in (u + 1)..(i - 1) : k \in NotifiedOf("onPageAttentionUpdate")
          /\ \A i \in NotifiedOf("onPageAudioUpdate") :
               LET u == UpdateBefore(i, "onPageAudioUpdate")
               IN  /\ u > 1
                   /\ events[u].audio # events[u - 1].audio
                   /\ events[i].audio = events[u].audio
                   /\ \A k \in (u + 1)..(i - 1) : k \in NotifiedOf("onPageAudioUpdate"))
    /\ [][/\ (/\ lastMessage' # lastMessage
              /\ lastMessage'.type = "pageAttentionUpdate"
              /\ lastMessage'.value = pageHasAttention)
               => UNCHANGED pageState
          /\ (/\ lastMessage' # lastMessage
              /\ lastMessage'.type = "pageAudioUpdate"
              /\ lastMessage'.value = pageHasAudio)
               => UNCHANGED pageState]_vars

\* C32 witness: the attention state has changed and its listener was notified;
\* after that a message repeated the audio state, which was false.
C32_Witness ==
    /\ NotifiedOf("onPageAttentionUpdate") # {}
    /\ pageHasAttention = "true" /\ pageHasAudio = "false"
    /\ lastMessage = [type |-> "pageAudioUpdate", value |-> "false"]
    /\ pmPc = "idle"

\* ------------------------------------------------ History API page loads
\* The position of the stop entry that the History API load at position j
\* follows: the last stop before it, 0 when there is none.
StopBefore(j) ==
    LET before == {i \in EventsOf("stop") : i < j}
    IN  IF before = {} THEN 0 ELSE CHOOSE i \in before : \A k \in before : k <= i

\* C33: a page visit that starts as a History API load follows the stop of the
\* page visit before it, with nothing but the calls of the stop listeners between
\* the two; the stop carries the old page id and the start a page id that no
\* earlier entry has; pageHasAttention and pageHasAudio are what they were at the
\* stop. The page visit of the initial load starts with both false.
C33_HistoryLoadKeepsState ==
    \A j \in EventsOf("start") :
        IF events[j].who = 1
        THEN LET i == StopBefore(j)
             IN  /\ i > 0
                 /\ \A k \in (i + 1)..(j - 1) : k \in NotifiedOf("onPageVisitStop")
                 /\ \A k \in 1..(j - 1) : events[k].pageId # events[j].pageId
                 /\ events[i].pageId = events[i - 1].pageId
                 /\ events[j].attention = events[i].attention
                 /\ events[j].audio = events[i].audio
        ELSE events[j].attention = "false" /\ events[j].audio = "false"

\* C33 witness: a History API load has started a page visit with attention,
\* after an initial load, and the page visit has started.
C33_Witness ==
    /\ \E j \in EventsOf("start") :
          events[j].who = 1 /\ events[j].attention = "true" /\ events[j].audio = "false"
    /\ pageHasAttention = "true" /\ pageVisitStarted = "true" /\ pageId = 2

\* ------------------------------------------ page visit starts and stops
\* The positions of the page visit start and stop entries.
StartsAndStops == EventsOf("start") \cup EventsOf("stop")

\* The start or stop entry before position i, 0 when there is none.
VisitEntryBefore(i) ==
    LET before == {k \in StartsAndStops : k < i}
    IN  IF before = {} THEN 0 ELSE CHOOSE k \in before : \A m \in before : m <= k

\* C39: page visit start and stop events alternate and begin with a start: the
\* entry before a start is a stop or there is none, the entry before a stop is
\* a start; and each stop carries the page id and the start time of that start.
C39_StartsAndStopsAlternate ==
    \A i \in StartsAndStops :
        LET p == VisitEntryBefore(i)
        IN  IF events[i].type = "start"
            THEN p = 0 \/ events[p].type = "stop"
            ELSE /\ p > 0 /\ events[p].type = "start"
                 /\ events[i].pageId = events[p].pageId
                 /\ events[i].startTime = events[p].startTime

\* C39 witness: two page visits with different start times have started and
\* stopped, the second one at unload.
C39_Witness ==
    /\ pmPc = "unloaded"
    /\ Cardinality(EventsOf("start")) = 2 /\ Cardinality(EventsOf("stop")) = 2
    /\ \E i, j \in EventsOf("start") : events[i].startTime # events[j].startTime

\* ------------------------------------------------ listeners of the events
ListenersOf(event) ==
    IF event = "onPageVisitStart" THEN listeners ELSE eventListeners[event]

Registered(event) == {ListenersOf(event)[i] : i \in 1..Len(ListenersOf(event))}

\* The entries at which an event begins to fire.
FiringsOf(event) ==
    {i \in 1..Len(events) :
        events[i].type \in {"start", "stop", "update"} /\ events[i].of = event}

\* The listeners called since the event last began to fire.
NotifiedSinceFiring(event) ==
    {events[i].who : i \in {k \in NotifiedOf(event) : \A f \in FiringsOf(event) : f < k}}

\* The step calls a listener.
ListenerIsCalled ==
    Len(events') = Len(events) + 1 /\ events'[Len(events')].type = "notify"

\* C40: a listener that throws stops neither the calls of the listeners that
\* are registered after it nor pageVisitStarted from becoming true: when
\* notifyListeners returns, every listener still registered has been called for
\* this event. An event holds each listener once, a listener is called at most
\* once per firing, and only a listener that is registered is called, so none
\* that has been removed.
C40_ListenersIsolated ==
    /\ [](/\ \A event \in AllEvents :
               \A i, j \in 1..Len(ListenersOf(event)) :
                   i # j => ListenersOf(event)[i] # ListenersOf(event)[j]
          /\ \A event \in AllEvents :
               \A i, k \in NotifiedOf(event) :
                   (i < k /\ events[i].who = events[k].who)
                       => \E f \in FiringsOf(event) : i < f /\ f < k)
    /\ [][/\ pmPc = "notifying" =>
               \/ pmPc' = "notifying"
               \/ /\ pmPc' = "idle" /\ pageVisitStarted' = "true"
                  /\ Registered("onPageVisitStart") \subseteq
                         NotifiedSinceFiring("onPageVisitStart")
          /\ pmPc = "firing" =>
               \/ pmPc' = "firing"
               \/ /\ pmPc' \in {"notifying", "idle", "unloaded"}
                  /\ Registered(firing) \subseteq NotifiedSinceFiring(firing)
          /\ ListenerIsCalled =>
               events'[Len(events')].who \in Registered(events'[Len(events')].of)]_vars

\* C40 witness: at a History API load the first listener of the page visit
\* start event threw, the second one was called after it, and pageVisitStarted
\* has become true.
C40_Witness ==
    /\ pageVisitStarted = "true" /\ pmPc = "idle"
    /\ \E i, k \in NotifiedOf("onPageVisitStart") :
          /\ i < k /\ events[i].threw /\ events[i].who # events[k].who
          /\ \A f \in FiringsOf("onPageVisitStart") : f < i

\* A listener of the stop event removed itself when it was called for the URL
\* change, and the stop at unload has fired without calling it.
RemovedListenerNotCalledAgain ==
    /\ pmPc = "unloaded"
    /\ Cardinality(NotifiedOf("onPageVisitStop")) = 1
    /\ Cardinality(FiringsOf("onPageVisitStop")) = 2
    /\ \A i \in NotifiedOf("onPageVisitStop") : \E f \in FiringsOf("onPageVisitStop") : f > i

\* ------------------------------------------ the notice of the study's end
MaxStartups == 3    \* start-ups of the extension

\* "endNoticeServed" in result is false, or result["endNoticeServed"] === false.
notServed(stored) == stored = "absent" \/ stored = "false"

NoticeInit ==
    /\ PipelineInit /\ ReducerOff /\ LookupOff /\ VoteOff /\ PageOff
    /\ endNoticeServed = "absent" /\ noticePc = "off"
    /\ noticeTabs = 0 /\ startups = << >>

\* The start-up script ends with an outcome.
Ends(outcome) == noticePc' = "off" /\ startups' = Append(startups, outcome)

\* The extension starts: the background script calls storage.local.get.
startup ==
    /\ noticePc = "off" /\ Len(startups) < MaxStartups
    /\ noticePc' = "get"
    /\ UNCHANGED <<pipeline, reducer, lookups, votes, page, endNoticeServed, noticeTabs,
                   startups>>

\* storage.local.get settles: a rejection is caught and logged; a stored true
\* ends the script; otherwise the script calls tabs.create.
storageGet(fulfilled) ==
    /\ noticePc = "get"
    /\ IF ~fulfilled THEN Ends("error")
       ELSE IF notServed(endNoticeServed) THEN noticePc' = "create" /\ UNCHANGED startups
       ELSE Ends("skipped")
    /\ UNCHANGED <<pipeline, reducer, lookups, votes, page, endNoticeServed, noticeTabs>>

\* tabs.create settles: the tab is open and the script calls storage.local.set,
\* or the rejection is caught and logged.
tabsCreate(fulfilled) ==
    /\ noticePc = "create"
    /\ IF fulfilled
       THEN noticeTabs' = noticeTabs + 1 /\ noticePc' = "set" /\ UNCHANGED startups
       ELSE Ends("failed") /\ UNCHANGED noticeTabs
    /\ UNCHANGED <<pipeline, reducer, lookups, votes, page, endNoticeServed>>

\* storage.local.set settles: the flag is stored, or the rejection is caught.
storageSet(fulfilled) ==
    /\ noticePc = "set"
    /\ IF fulfilled
       THEN endNoticeServed' = "true" /\ Ends("served")
       ELSE UNCHANGED endNoticeServed /\ Ends("unsaved")
    /\ UNCHANGED <<pipeline, reducer, lookups, votes, page, noticeTabs>>

\* The browser exits while the script waits for a promise.
shutdown ==
    /\ noticePc # "off"
    /\ Ends("exit")
    /\ UNCHANGED <<pipeline, reducer, lookups, votes, page, endNoticeServed, noticeTabs>>

NoticeNext ==
    \/ startup
    \/ \E fulfilled \in BOOLEAN : storageGet(fulfilled)
    \/ \E fulfilled \in BOOLEAN : tabsCreate(fulfilled)
    \/ \E fulfilled \in BOOLEAN : storageSet(fulfilled)
    \/ shutdown

NoticeSpec == NoticeInit /\ [][NoticeNext]_vars

\* C34: over all start-ups the notice tab is opened at most once; once the flag
\* is stored as true no start-up opens the tab; and a start-up whose tabs.create
\* fails leaves the flag as it was.
C34_NoticeAtMostOnce ==
    /\ [](noticeTabs <= 1)
    /\ [][/\ endNoticeServed = "true" =>
               (noticeTabs' = noticeTabs /\ endNoticeServed' = "true")
          /\ (Len(startups') > Len(startups) /\ startups'[Len(startups')] = "failed")
               => endNoticeServed' = endNoticeServed]_vars

\* Once the flag is stored as true no start-up opens the tab and the flag stays;
\* a start-up whose tabs.create fails leaves the flag unset; and the tab is
\* opened at most once as long as no storage.local.set has failed and no
\* start-up was cut short by the browser's exit.
NoticeOnceWhenStored ==
    /\ []((\A i \in 1..Len(startups) : startups[i] \notin {"unsaved", "exit"})
              => noticeTabs <= 1)
    /\ [][/\ endNoticeServed = "true" =>
               (noticeTabs' = noticeTabs /\ endNoticeServed' = "true")
          /\ (Len(startups') > Len(startups) /\ startups'[Len(startups')] = "failed")
               => endNoticeServed' = endNoticeServed]_vars

\* The tab was opened, storage.local.set failed, and the next start-up opened
\* the tab again.
NoticeServedTwice ==
    /\ Len(startups) >= 2 /\ startups[1] = "unsaved" /\ startups[2] = "served"
    /\ noticeTabs = 2

\* ------------------------------------------ the page-navigation fold's frame
\* The step folds one record of the page-navigation log.
FoldsPageNavigationRecord == statsKey = PageNavigation /\ folded' = folded + 1

TypeOfRecord(record) == IF Defined(record, "type") THEN Get(record, "type") ELSE Null

\* C35: in the page-navigation fold a record of another type than "pageVisit"
\* and "untrackedVisitCount" leaves the accumulator as it is, numUntrackedVisits
\* is set by records of the type "untrackedVisitCount" only, and no record is
\* changed by the fold.
C35_FoldFrame ==
    [][FoldsPageNavigationRecord =>
          LET navObj == storageInstance[folded + 1]
          IN  /\ storageInstance' = storageInstance
              /\ TypeOfRecord(navObj) \notin {"pageVisit", "untrackedVisitCount"}
                    => stats' = stats
              /\ Has(stats', "numUntrackedVisits") /\ ~Has(stats, "numUntrackedVisits")
                    => TypeOfRecord(navObj) = "untrackedVisitCount"]_vars

\* What the fold does instead: every record that is no page visit has the type
\* "untrackedVisitCount" afterwards and sets numUntrackedVisits, to undefined
\* when it has no such field; page visits are left as they are.
EveryOtherRecordTakenForCount ==
    [][FoldsPageNavigationRecord =>
          LET navObj == storageInstance[folded + 1]
              written == storageInstance'[folded + 1]
          IN  IF TypeOfRecord(navObj) = "pageVisit"
              THEN written = navObj /\ ~Has(stats', "numUntrackedVisits")
                                       = ~Has(stats, "numUntrackedVisits")
              ELSE /\ TypeOfRecord(written) = "untrackedVisitCount"
                   /\ Has(stats', "numUntrackedVisits")
                   /\ Defined(stats', "numUntrackedVisits")
                        = Defined(navObj, "numUntrackedVisits")]_vars

\* ------------------------------------------- the depth of the lookup's descent
\* The levels that a call is below the value that the lookup was called on.
LevelsBelow(call) == 5 - call.recurseLevel
DescentCalls == {descent[n] : n \in 1..Len(descent)}

\* C36: the lookup returns on every payload (nested objects, arrays, JSON
\* texts that decode to further JSON texts), none of its calls is more than 5
\* levels below the value it was called on, and a call at that limit returns
\* null.
C36_LookupDepthBounded ==
    found # NotCalled =>
        /\ descent # << >> /\ descent[1].object = object /\ descent[1].result = found
        /\ \A call \in DescentCalls :
              /\ LevelsBelow(call) \in 0..5
              /\ LevelsBelow(call) = 5 => call.result = JNull
\* The lookup has reached the limit on a JSON text of a JSON text, below which
\* the field is.
C36_Witness ==
    /\ found = JNull
    /\ object = Wrapped("json", JObj(<< <<"id", JNum(1)>> >>), MaxWrap)
    /\ fieldName = "id"
    /\ \E call \in DescentCalls : LevelsBelow(call) = 5 /\ call.object.t = "json"
\* A number is parsed to itself until the limit ends the descent.
NumberDescendsToLimit ==
    (found # NotCalled /\ object = JNum(4)) =>
        /\ Len(descent) = 6
        /\ \A call \in DescentCalls : call.object = JNum(4) /\ call.result = JNull

\* ------------------------------------- reshares from several Facebook tabs
\* The tabs that requests and content-script messages come from.
FacebookTabs == {7, 8, 9}
\* Reshares from two tabs, a reshare of old Facebook and a comment.
ReshareSamples ==
    { [BaseRequest EXCEPT !.fbName = FB_RESHARE_NAME, !.fields = {"variables"},
                          !.baseState = "self", !.tabId = tab] : tab \in {7, 8} }
    \cup { [BaseRequest EXCEPT !.url = FB_OLD_SHARE,
                               !.fields = {"shared_from_post_id", "sharer_id"},
                               !.tabId = 8],
           [BaseRequest EXCEPT !.fbName = FB_COMMENT_NAME, !.fields = {"variables"},
                               !.tabId = 9] }

\* The listener that fbPostContentInit registers: the content script of a
\* Facebook tab tells which tab it is in.
facebookTabMessage(tab) ==
    /\ fbPostContentSetUp
    /\ facebookTabId' = tab
    /\ UNCHANGED <<registry, processedRequestIds, requests, execs, reducer, lookups,
                   votes, page, notice>>

ReshareNext ==
    \/ \E h \in {<<"facebook", "reshare">>, <<"facebook", "comment">>} :
          registerPlatformListener(h, "nonblocking")
    \/ \E rid \in ReqIds, req \in ReshareSamples : onBeforeRequest(rid, req)
    \/ \E k \in 1..Len(execs) : resumeVerifier(k)
    \/ \E k \in 1..Len(execs) : settleExtractor(k, "listing")
    \/ \E k \in 1..Len(execs) : resumeExtractor(k, 0)
    \/ \E tab \in FacebookTabs : facebookTabMessage(tab)

ReshareSpec == Init /\ [][ReshareNext]_vars

\* C37: whatever the interleaving of the pipelines of requests from different
\* tabs and of the content scripts' tab messages, a reshare pipeline sends
\* its source lookup, if it sends one, to the tab of the request that it
\* processes.
C37_LookupSentToOwnTab ==
    \A k \in 1..Len(execs) :
        /\ Len(execs[k].sentTo) <= 1
        /\ \A n \in 1..Len(execs[k].sentTo) :
              execs[k].sentTo[n] = requests[execs[k].rid].tabId
\* Two reshare pipelines of requests from different tabs have each sent the
\* lookup, the one called first after the other, and a content script of a
\* third tab has sent its message since.
C37_Witness ==
    \E j, k \in 1..Len(execs) :
        /\ j < k
        /\ execs[j].sentTo = <<requests[execs[j].rid].tabId>>
        /\ execs[k].sentTo = <<requests[execs[k].rid].tabId>>
        /\ requests[execs[j].rid].tabId # requests[execs[k].rid].tabId
        /\ facebookTabId \notin {requests[execs[j].rid].tabId,
                                 requests[execs[k].rid].tabId}
        /\ execs[j].pc = "extractor" /\ execs[j].out = "pending"
\* The lookup is sent in the step that records the tab: a step that adds a
\* lookup to an execution sets facebookTabId to the tab of its request.
LookupSentWithTabRecorded ==
    [][\A k \in 1..Len(execs) :
          execs'[k].sentTo # execs[k].sentTo
             => facebookTabId' = requests[execs[k].rid].tabId]_vars

\* --------------------------------------- what a rejected execution answers
\* The execution ended at an extractor that yielded nothing.
RejectedByExtractor(e) ==
    /\ Done(e) /\ e.log # << >>
    /\ e.log[Len(e.log)].phase = "extractor" /\ e.log[Len(e.log)].out = "null"
\* The decision that the network layer is given has a cancel property.
HasCancel(result) == result \in {"cancelTrue", "cancelFalse"}

\* C38: an execution that a verifier or an extractor rejected answers the
\* network layer with the empty decision, also on a blocking hook, and an
\* execution answers with a decision that has a cancel property only when
\* that is the decision of the blocking callback that it called.
C38_RejectionNeverCancels ==
    \A k \in Execs :
        /\ (RejectedByVerifier(execs[k]) \/ RejectedByExtractor(execs[k]))
              => execs[k].result = "empty"
        /\ HasCancel(execs[k].result)
              => /\ execs[k].blockingType = "blocking"
                 /\ execs[k].log[Len(execs[k].log)].phase = "blocking"
                 /\ execs[k].log[Len(execs[k].log)].out = execs[k].result
\* An execution on a blocking hook was rejected by its extractor, after every
\* verifier had accepted the request, and has answered.
C38_Witness ==
    \E k \in Execs :
        /\ execs[k].blockingType = "blocking"
        /\ RejectedByExtractor(execs[k])
        /\ Calls(execs[k], "blocking") = {}
        /\ execs[k].result = "empty"
\* An execution on a blocking hook that a verifier rejected.
BlockingHookRejectedByVerifier ==
    \E k \in Execs :
        /\ execs[k].blockingType = "blocking"
        /\ RejectedByVerifier(execs[k])
        /\ execs[k].result = "empty"

====
